---- MODULE Spec2Model ----
(***************************************************************************)
(* semver-calc: next semantic version of the products of a monorepo.       *)
(*                                                                         *)
(* Strings that the code inspects character by character (version text)   *)
(* are sequences of one-character strings; names that the code only        *)
(* compares as a whole (products, variants, scopes, commit types) are      *)
(* strings; a file path is the sequence of its "/"-separated segments and  *)
(* a glob pattern is the sequence of its "/"-separated parts.              *)
(***************************************************************************)
EXTENDS Integers, Sequences, FiniteSets, TLC

VARIABLES
    config,     \* Matcher.config: the product registry (Config.Products)
    globs,      \* Matcher.globs: the compiled globs per product
    commits,    \* the classified commits handed to the bump aggregator
    current,    \* the current Version of the release train
    repo,       \* the clone: how much of the history is connected to HEAD
    call        \* the last call made, with its arguments and its result

vars == <<config, globs, commits, current, repo, call>>

\* A clone with the whole history: not shallow, no commit cut off.
FullClone == [shallow |-> FALSE, missing |-> 0]

(***************************************************************************)
(* Generic helpers.                                                        *)
(***************************************************************************)

\* The elements of a sequence.
Range(s) == {s[i] : i \in 1..Len(s)}

\* All sequences over S of length at most n.
SeqsUpTo(S, n) == UNION {[1..k -> S] : k \in 0..n}

\* All orders in which a Go map iteration may enumerate the set S.
Orders(S) == {o \in [1..Cardinality(S) -> S] : \A i, j \in 1..Cardinality(S) : o[i] = o[j] => i = j}

(***************************************************************************)
(* Input universe.                                                         *)
(***************************************************************************)

ProductNames == {"mobile", "web", "sample-app"}

VariantNames == {"customerA", "customerB"}

\* Commit scopes: none, the variant names, a product's own name, an
\* arbitrary unconfigured name.
Scopes == {""} \cup VariantNames \cup {"sample-app", "nonexistent"}

PatMobile == <<"apps", "mobile", "**">>

\* A product's globs: none configured, or one pattern.
GlobLists == {<<>>, <<PatMobile>>}

\* A product's variants: none, one, or two (a variant name is never empty:
\* the empty name is how ProductVariant marks a product without variants).
VariantLists == {<<>>, <<"customerB">>, <<"customerA", "customerB">>}

TagPrefixes == {"", "v"}

Paths == {<<"apps", "mobile", "foo.ts">>, <<"libs", "shared", "util.ts">>}

MaxFiles == 1

FileLists == SeqsUpTo(Paths, MaxFiles)

(***************************************************************************)
(* package config                                                          *)
(***************************************************************************)

\* The product configurations of the registries explored.  The tag-prefix
\* override is varied on the products without variants: those are the
\* products for which the matcher builds its identities itself, without
\* the override.
ProductConfigs ==
    {pc \in [Globs : GlobLists, Variants : VariantLists, TagPrefix : TagPrefixes] :
        Len(pc.Variants) > 0 => pc.TagPrefix = ""}

\* Config.Products: a map from product name to ProductConfig; validate()
\* rejects the empty map.
Registries == UNION {[S -> ProductConfigs] : S \in (SUBSET ProductNames) \ {{}}}

ProductVariant(p, v, t) == [Product |-> p, Variant |-> v, TagPrefix |-> t]

HasVariants(c, product) ==
    IF product \notin DOMAIN c THEN FALSE
    ELSE Len(c[product].Variants) > 0

\* Returns [variants, ok].
GetVariantsForProduct(c, product) ==
    IF product \notin DOMAIN c THEN [variants |-> <<>>, ok |-> FALSE]
    ELSE IF Len(c[product].Variants) = 0
         THEN [variants |-> <<ProductVariant(product, "", c[product].TagPrefix)>>, ok |-> TRUE]
         ELSE [variants |-> [i \in 1..Len(c[product].Variants) |->
                               ProductVariant(product, c[product].Variants[i], c[product].TagPrefix)],
               ok |-> TRUE]

\* Returns [patterns, ok].
GetGlobs(c, product) ==
    IF product \notin DOMAIN c THEN [patterns |-> <<>>, ok |-> FALSE]
    ELSE [patterns |-> c[product].Globs, ok |-> TRUE]

(***************************************************************************)
(* package matcher                                                         *)
(***************************************************************************)

\* glob.Glob.Match with separator '/': "**" spans directory boundaries, "*"
\* stays within one segment, any other part is literal.  A path handed to
\* the matcher has no empty segment, so "**" next to a "/" takes at least
\* one whole segment.
RECURSIVE GlobMatch(_, _)
GlobMatch(g, file) ==
    IF g = <<>> THEN file = <<>>
    ELSE IF Head(g) = "**"
         THEN \E k \in 1..Len(file) : GlobMatch(Tail(g), SubSeq(file, k + 1, Len(file)))
    ELSE IF Head(g) = "*"
         THEN file # <<>> /\ GlobMatch(Tail(g), Tail(file))
    ELSE file # <<>> /\ Head(file) = Head(g) /\ GlobMatch(Tail(g), Tail(file))

\* NewMatcher without the default pattern.
NewMatcher_NoDefault(c) ==
    [productName \in DOMAIN c |-> GetGlobs(c, productName).patterns]

\* NewMatcher: the compiled globs per product, "**" when none is configured.
NewMatcher(c) ==
    [productName \in DOMAIN c |->
        LET patterns == GetGlobs(c, productName).patterns
        IN  IF Len(patterns) = 0 THEN <<(<<"**">>)>> ELSE patterns]

\* MatchedProducts with the result of g.Match ignored: every product is
\* marked as soon as there is a file.
MatchedProducts_AnyFile(gl, files) ==
    {productName \in DOMAIN gl : Len(files) > 0 /\ Len(gl[productName]) > 0}

\* The keys of matchedProducts after the loops of MatchFiles.
MatchedProducts(gl, files) ==
    {productName \in DOMAIN gl :
        \E f \in 1..Len(files) : \E g \in 1..Len(gl[productName]) :
            GlobMatch(gl[productName][g], files[f])}

\* MatchFiles: the matched products in any map iteration order.
MatchFiles(gl, files) == Orders(MatchedProducts(gl, files))

\* FilterStep that refines or drops: a scope that names no variant of the
\* product appends nothing.
FilterStep_RefineOrDrop(c, product, scope) ==
    IF ~HasVariants(c, product)
    THEN <<ProductVariant(product, "", "")>>
    ELSE LET r == GetVariantsForProduct(c, product)
         IN  IF ~r.ok THEN <<>>
             ELSE IF scope = "" THEN r.variants
             ELSE SelectSeq(r.variants, LAMBDA pv : pv.Variant = scope)

\* FilterStep that applies the scope to a product without variants too: a
\* scoped commit keeps the product only when the scope is the product's name.
FilterStep_ScopedSimple(c, product, scope) ==
    IF ~HasVariants(c, product)
    THEN IF scope = "" \/ scope = product THEN <<ProductVariant(product, "", "")>> ELSE <<>>
    ELSE LET r == GetVariantsForProduct(c, product)
             hit == {i \in 1..Len(r.variants) : r.variants[i].Variant = scope}
         IN  IF ~r.ok THEN <<>>
             ELSE IF scope = "" \/ hit = {} THEN r.variants
             ELSE <<r.variants[CHOOSE i \in hit : \A j \in hit : i <= j]>>

\* The body of the loop of FilterVariantsByScope for one product: what it
\* appends to result.
FilterStep(c, product, scope) ==
    IF ~HasVariants(c, product)
    THEN <<ProductVariant(product, "", "")>>
    ELSE LET r == GetVariantsForProduct(c, product)
             hit == {i \in 1..Len(r.variants) : r.variants[i].Variant = scope}
         IN  IF ~r.ok THEN <<>>
             ELSE IF scope = "" THEN r.variants
             ELSE IF hit # {}
                  THEN <<r.variants[CHOOSE i \in hit : \A j \in hit : i <= j]>>
                  ELSE r.variants

RECURSIVE FilterLoop(_, _, _, _, _)
FilterLoop(c, products, scope, i, result) ==
    IF i > Len(products) THEN result
    ELSE FilterLoop(c, products, scope, i + 1, result \o FilterStep(c, products[i], scope))

\* FilterVariantsByScope with the flag "matched" declared once, outside the
\* loop over the products: once a product has matched the scope, a later
\* product that does not match it is no longer widened.
RECURSIVE FilterLoop_SharedFlag(_, _, _, _, _, _)
FilterLoop_SharedFlag(c, products, scope, i, result, matched) ==
    IF i > Len(products) THEN result
    ELSE LET step == FilterStep(c, products[i], scope)
             refined == /\ HasVariants(c, products[i])
                        /\ scope \in Range(c[products[i]].Variants)
             widened == HasVariants(c, products[i]) /\ scope # "" /\ ~refined
         IN  FilterLoop_SharedFlag(c, products, scope, i + 1,
                 IF widened /\ matched THEN result ELSE result \o step,
                 matched \/ refined)

FilterVariantsByScope_SharedFlag(c, products, scope) ==
    FilterLoop_SharedFlag(c, products, scope, 1, <<>>, FALSE)

FilterVariantsByScope(c, products, scope) == FilterLoop(c, products, scope, 1, <<>>)

\* MatchCommit: every result the call may return (one per iteration order
\* of MatchFiles).
MatchCommit(c, gl, scope, files) ==
    {IF Len(matchedProducts) = 0 THEN <<>>
     ELSE FilterVariantsByScope(c, matchedProducts, scope) :
        matchedProducts \in MatchFiles(gl, files)}

\* ContainsTarget comparing whole ProductVariant values (pv == target).
ContainsTarget_WholeValue(affected, target) ==
    \E i \in 1..Len(affected) : affected[i] = target

\* The scan of MatchesProductVariant over one result of MatchCommit.
ContainsTarget(affected, target) ==
    \E i \in 1..Len(affected) :
        affected[i].Product = target.Product /\ affected[i].Variant = target.Variant

(***************************************************************************)
(* package version                                                         *)
(***************************************************************************)

Version(major, minor, patch) == [Major |-> major, Minor |-> minor, Patch |-> patch]

Zero == Version(0, 0, 0)

Digits == <<"0", "1", "2", "3", "4", "5", "6", "7", "8", "9">>

IsDigit(ch) == \E d \in 1..10 : Digits[d] = ch

DigitValue(ch) == (CHOOSE d \in 1..10 : Digits[d] = ch) - 1

\* strings.TrimPrefix(s, "v"): s without one leading "v", if it has one.
TrimPrefix(s) == IF Len(s) > 0 /\ s[1] = "v" THEN Tail(s) ELSE s

\* strings.Split(s, "."): the parts between the dots, one more than there
\* are dots; cur is the part under way.
RECURSIVE SplitFrom(_, _, _)
SplitFrom(s, i, cur) ==
    IF i > Len(s) THEN <<cur>>
    ELSE IF s[i] = "." THEN <<cur>> \o SplitFrom(s, i + 1, <<>>)
    ELSE SplitFrom(s, i + 1, Append(cur, s[i]))

Split(s) == SplitFrom(s, 1, <<>>)

\* The value of a run of decimal digits, read left to right from n.
RECURSIVE DigitsValue(_, _, _)
DigitsValue(s, i, n) ==
    IF i > Len(s) THEN n ELSE DigitsValue(s, i + 1, n * 10 + DigitValue(s[i]))

\* strconv.Atoi: an optional sign, then one or more decimal digits.
\* Returns [n, ok].
Atoi(s) ==
    LET signed == Len(s) > 0 /\ (s[1] = "-" \/ s[1] = "+")
        digits == IF signed THEN Tail(s) ELSE s
    IN  IF Len(digits) = 0 \/ \E i \in 1..Len(digits) : ~IsDigit(digits[i])
        THEN [n |-> 0, ok |-> FALSE]
        ELSE [n |-> IF signed /\ s[1] = "-" THEN 0 - DigitsValue(digits, 1, 0)
                    ELSE DigitsValue(digits, 1, 0),
              ok |-> TRUE]

\* version.Parse.  Returns [v, err]; v is Version{} when err is set.
Parse(s) ==
    LET parts == Split(TrimPrefix(s))
        failed == [v |-> Zero, err |-> TRUE]
    IN  IF Len(parts) # 3 THEN failed
        ELSE LET major == Atoi(parts[1])
                 minor == Atoi(parts[2])
                 patch == Atoi(parts[3])
             IN  IF ~major.ok THEN failed
                 ELSE IF ~minor.ok THEN failed
                 ELSE IF ~patch.ok THEN failed
                 ELSE IF major.n < 0 \/ minor.n < 0 \/ patch.n < 0 THEN failed
                 ELSE [v |-> Version(major.n, minor.n, patch.n), err |-> FALSE]

\* Itoa that writes the last digit only.
Itoa_LastDigit(n) == <<Digits[(n % 10) + 1]>>

\* The decimal digits of n >= 0.
RECURSIVE Itoa(_)
Itoa(n) == IF n < 10 THEN <<Digits[n + 1]>> ELSE Append(Itoa(n \div 10), Digits[(n % 10) + 1])

\* fmt verb %d.
FormatInt(n) == IF n < 0 THEN <<"-">> \o Itoa(0 - n) ELSE Itoa(n)

\* Version.String.
String(v) == FormatInt(v.Major) \o <<".">> \o FormatInt(v.Minor) \o <<".">> \o FormatInt(v.Patch)

\* Bump that keeps the lower components.
Bump_KeepLower(v, level) ==
    IF level = "major" THEN Version(v.Major + 1, v.Minor, v.Patch)
    ELSE IF level = "minor" THEN Version(v.Major, v.Minor + 1, v.Patch)
    ELSE IF level = "patch" THEN Version(v.Major, v.Minor, v.Patch + 1)
    ELSE v

\* Version.Bump.
Bump(v, level) ==
    IF level = "major" THEN Version(v.Major + 1, 0, 0)
    ELSE IF level = "minor" THEN Version(v.Major, v.Minor + 1, 0)
    ELSE IF level = "patch" THEN Version(v.Major, v.Minor, v.Patch + 1)
    ELSE v

(***************************************************************************)
(* package commit: the bump aggregator                                     *)
(***************************************************************************)

\* DetermineBump reads the Type and the Breaking flag of a Commit.
CommitTypes == {"feat", "fix", "chore", ""}

Commits == [Type : CommitTypes, Breaking : BOOLEAN]

\* The switch of DetermineBump with a default case: a commit of any other
\* type, the empty one included, asks for a patch.
BumpStep_OtherIsPatch(bump, c) ==
    IF c.Type = "feat" THEN (IF bump # "major" THEN "minor" ELSE bump)
    ELSE IF bump = "none" THEN "patch" ELSE bump

\* The running level after one more commit that did not end the scan.
BumpStep(bump, c) ==
    IF c.Type = "feat" THEN (IF bump # "major" THEN "minor" ELSE bump)
    ELSE IF c.Type = "fix" THEN (IF bump = "none" THEN "patch" ELSE bump)
    ELSE bump

\* The loop of DetermineBump from commit i on, with its early return.
RECURSIVE BumpScan(_, _, _)
BumpScan(cs, i, bump) ==
    IF i > Len(cs) THEN bump
    ELSE IF cs[i].Breaking /\ (cs[i].Type = "feat" \/ cs[i].Type = "fix") THEN "major"
    ELSE BumpScan(cs, i + 1, BumpStep(bump, cs[i]))

\* DetermineBump returning major for a breaking commit of any type.
RECURSIVE BumpScan_AnyType(_, _, _)
BumpScan_AnyType(cs, i, bump) ==
    IF i > Len(cs) THEN bump
    ELSE IF cs[i].Breaking THEN "major"
    ELSE BumpScan_AnyType(cs, i + 1, BumpStep(bump, cs[i]))

DetermineBump_AnyType(cs) == BumpScan_AnyType(cs, 1, "none")

\* DetermineBump without the early return and without the guard of the
\* feat case: a breaking commit sets the level, a later feat overwrites it.
RECURSIVE BumpScan_Overwrite(_, _, _)
BumpScan_Overwrite(cs, i, bump) ==
    IF i > Len(cs) THEN bump
    ELSE BumpScan_Overwrite(cs, i + 1,
            IF cs[i].Type = "feat" THEN (IF cs[i].Breaking THEN "major" ELSE "minor")
            ELSE IF cs[i].Type = "fix"
                 THEN (IF cs[i].Breaking THEN "major" ELSE IF bump = "none" THEN "patch" ELSE bump)
            ELSE bump)

DetermineBump_Overwrite(cs) == BumpScan_Overwrite(cs, 1, "none")

\* DetermineBump without the guard of the fix case: a fix after a feat
\* lowers the level to patch.
RECURSIVE BumpScan_FixLowers(_, _, _)
BumpScan_FixLowers(cs, i, bump) ==
    IF i > Len(cs) THEN bump
    ELSE IF cs[i].Breaking /\ (cs[i].Type = "feat" \/ cs[i].Type = "fix") THEN "major"
    ELSE BumpScan_FixLowers(cs, i + 1,
            IF cs[i].Type = "feat" THEN "minor"
            ELSE IF cs[i].Type = "fix" THEN "patch"
            ELSE bump)

DetermineBump_FixLowers(cs) == BumpScan_FixLowers(cs, 1, "none")

DetermineBump(cs) == BumpScan(cs, 1, "none")

(***************************************************************************)
(* The matcher as a state machine: a matcher is constructed once from a    *)
(* registry; every later step is one call on it, recorded with its result. *)
(* MatchCommit reads only the Scope field of its commit argument, so the   *)
(* commit is given by its scope.                                           *)
(***************************************************************************)

NoCall == [op |-> "none"]

\* The caller is between two calls.
Idle == call.op = "none"

\* Targets asked about: every product with every variant name, carrying the
\* tag-prefix override the registry sets for the product (as parseTarget
\* and GetAllProductVariants build them).
Targets(c) ==
    {ProductVariant(p, v, IF p \in DOMAIN c THEN c[p].TagPrefix ELSE "") :
        p \in ProductNames, v \in {""} \cup VariantNames}

Init ==
    /\ config \in Registries
    /\ globs = NewMatcher(config)
    /\ commits = <<>>
    /\ current = Zero
    /\ repo = FullClone
    /\ call = NoCall

CallMatchFiles ==
    /\ Idle
    /\ \E files \in FileLists : \E ret \in MatchFiles(globs, files) :
          call' = [op |-> "MatchFiles", files |-> files, ret |-> ret]
    /\ UNCHANGED <<config, globs, commits, current, repo>>

CallFilterVariantsByScope ==
    /\ Idle
    /\ \E S \in SUBSET (DOMAIN config) : \E products \in Orders(S) : \E scope \in Scopes :
          call' = [op |-> "FilterVariantsByScope", products |-> products, scope |-> scope,
                   ret |-> FilterVariantsByScope(config, products, scope)]
    /\ UNCHANGED <<config, globs, commits, current, repo>>

CallMatchCommit ==
    /\ Idle
    /\ \E files \in FileLists : \E scope \in Scopes :
       \E ret \in MatchCommit(config, globs, scope, files) :
          call' = [op |-> "MatchCommit", files |-> files, scope |-> scope, ret |-> ret]
    /\ UNCHANGED <<config, globs, commits, current, repo>>

CallMatchesProductVariant ==
    /\ Idle
    /\ \E files \in FileLists : \E scope \in Scopes : \E target \in Targets(config) :
       \E affected \in MatchCommit(config, globs, scope, files) :
          call' = [op |-> "MatchesProductVariant", files |-> files, scope |-> scope,
                   target |-> target, ret |-> ContainsTarget(affected, target)]
    /\ UNCHANGED <<config, globs, commits, current, repo>>

\* The caller has consumed the result of the last call.
Return ==
    /\ ~Idle
    /\ call' = NoCall
    /\ UNCHANGED <<config, globs, commits, current, repo>>

Next ==
    \/ CallMatchFiles
    \/ CallFilterVariantsByScope
    \/ CallMatchCommit
    \/ CallMatchesProductVariant
    \/ Return

Spec == Init /\ [][Next]_vars

(***************************************************************************)
(* The bump aggregator as a state machine: the commit sequence changes by  *)
(* insertion of a commit at any position and by reordering; DetermineBump  *)
(* is called on the sequence as it stands.                                 *)
(***************************************************************************)

MaxCommits == 3

\* s with commit c inserted so that it stands at position pos.
InsertAt(s, pos, c) == SubSeq(s, 1, pos - 1) \o <<c>> \o SubSeq(s, pos, Len(s))

\* The sequences that hold the elements of s in another order.
Reorderings(s) ==
    {[i \in 1..Len(s) |-> s[o[i]]] : o \in Orders(1..Len(s))} \ {s}

InitBump ==
    /\ config = <<>>
    /\ globs = <<>>
    /\ commits = <<>>
    /\ current = Zero
    /\ repo = FullClone
    /\ call = NoCall

\* One more commit enters the sequence, at position pos.
InsertCommit ==
    /\ Len(commits) < MaxCommits
    /\ \E c \in Commits : \E pos \in 1..(Len(commits) + 1) :
          /\ commits' = InsertAt(commits, pos, c)
          /\ call' = [op |-> "Insert", pos |-> pos]
    /\ UNCHANGED <<config, globs, current, repo>>

\* The same commits are handed over in another order; the level returned
\* for the former order is kept for comparison.
Reorder ==
    /\ call.op = "DetermineBump"
    /\ \E cs \in Reorderings(commits) :
          /\ commits' = cs
          /\ call' = [op |-> "Reorder", was |-> call.ret]
    /\ UNCHANGED <<config, globs, current, repo>>

\* DetermineBump(commits).  pos is the position of the commit inserted just
\* before the call (0 if none), was the level returned before a reordering
\* ("" if none).
CallDetermineBump ==
    /\ call.op # "DetermineBump"
    /\ call' = [op |-> "DetermineBump",
                ret |-> DetermineBump(commits),
                pos |-> IF call.op = "Insert" THEN call.pos ELSE 0,
                was |-> IF call.op = "Reorder" THEN call.was ELSE ""]
    /\ UNCHANGED <<config, globs, commits, current, repo>>

NextBump ==
    \/ InsertCommit
    \/ Reorder
    \/ CallDetermineBump

SpecBump == InitBump /\ [][NextBump]_vars

(***************************************************************************)
(* Version.Bump as a state machine: the release train has a current        *)
(* version; Bump derives the next one from it, and a release makes the     *)
(* next version the current one.                                           *)
(***************************************************************************)

MaxComponent == 3

\* The levels DetermineBump returns, and two strings that are no level.
Levels == {"major", "minor", "patch", "none", "unknown", ""}

InitVersion ==
    /\ config = <<>>
    /\ globs = <<>>
    /\ commits = <<>>
    /\ current = Zero
    /\ repo = FullClone
    /\ call = NoCall

CallBump ==
    /\ Idle
    /\ \E level \in Levels :
          call' = [op |-> "Bump", level |-> level, ret |-> Bump(current, level)]
    /\ UNCHANGED <<config, globs, commits, current, repo>>

\* The next version is released: it is the current version from now on.
Release ==
    /\ call.op = "Bump"
    /\ call.ret.Major <= MaxComponent
    /\ call.ret.Minor <= MaxComponent
    /\ call.ret.Patch <= MaxComponent
    /\ current' = call.ret
    /\ call' = NoCall
    /\ UNCHANGED <<config, globs, commits, repo>>

NextVersion ==
    \/ CallBump
    \/ Release
    \/ Return

SpecVersion == InitVersion /\ [][NextVersion]_vars

(***************************************************************************)
(* Parse and String as a state machine: a text is parsed into the current  *)
(* version, which is then rendered.                                        *)
(***************************************************************************)

MaxText == 6

\* The characters of the texts: the prefix, the separator, two digits, the
\* signs Atoi reads.
Chars == {"v", ".", "0", "1", "-", "+"}

Texts == SeqsUpTo(Chars, MaxText)

InitParse ==
    /\ config = <<>>
    /\ globs = <<>>
    /\ commits = <<>>
    /\ current = Zero
    /\ repo = FullClone
    /\ call = NoCall

CallParse ==
    /\ Idle
    /\ \E s \in Texts :
          /\ call' = [op |-> "Parse", s |-> s, err |-> Parse(s).err]
          /\ current' = Parse(s).v
    /\ UNCHANGED <<config, globs, commits, repo>>

\* current.String(), for a version that Parse returned without error.
CallString ==
    /\ call.op = "Parse"
    /\ ~call.err
    /\ call' = [op |-> "String", s |-> call.s, ret |-> String(current)]
    /\ UNCHANGED <<config, globs, commits, current, repo>>

\* The caller is done with the text.
Discard ==
    /\ call.op \in {"Parse", "String"}
    /\ call' = NoCall
    /\ current' = Zero
    /\ UNCHANGED <<config, globs, commits, repo>>

NextParse ==
    \/ CallParse
    \/ CallString
    \/ Discard

SpecParse == InitParse /\ [][NextParse]_vars

(***************************************************************************)
(* Properties of the matcher.                                              *)
(***************************************************************************)

\* The products of the registry that some file of the list touches: some
\* file matches some glob of the product, "**" standing for an empty list.
Touched(files) ==
    {p \in DOMAIN config :
        \E f \in Range(files) :
            \/ config[p].Globs = <<>>
            \/ \E g \in Range(config[p].Globs) : GlobMatch(g, f)}

\* The touched products of the call under way.
TouchedOfCall ==
    IF call.op = "FilterVariantsByScope" THEN Range(call.products) ELSE Touched(call.files)

ResolvesVariants == call.op \in {"FilterVariantsByScope", "MatchCommit"}

\* The identities of product p in a result, in the order of the result.
OfProduct(ret, p) == SelectSeq(ret, LAMBDA pv : pv.Product = p)

\* Every configured variant of product p, in configuration order.
ConfiguredVariants(p) ==
    [i \in 1..Len(config[p].Variants) |->
        ProductVariant(p, config[p].Variants[i], config[p].TagPrefix)]

C2_VariantlessScopeBlind ==
    ResolvesVariants =>
        \A p \in TouchedOfCall :
            Len(config[p].Variants) = 0 =>
                /\ Len(OfProduct(call.ret, p)) = 1
                /\ OfProduct(call.ret, p)[1].Product = p
                /\ OfProduct(call.ret, p)[1].Variant = ""

C2_Witness ==
    /\ call.op = "FilterVariantsByScope"
    /\ call.scope = "sample-app"
    /\ "sample-app" \in Range(call.products)
    /\ Len(config["sample-app"].Variants) = 0
    /\ \E i \in 1..Len(call.ret) : call.ret[i].Product = "sample-app" /\ call.ret[i].Variant = ""

\* C3: the scope policy is applied per touched product: a product whose
\* variant list contains the scope contributes exactly that variant, and
\* the result is made of the results for each touched product alone.
C3_PerProductPolicy ==
    ResolvesVariants =>
        /\ \A p \in TouchedOfCall :
              /\ call.scope \in Range(config[p].Variants)
                    => OfProduct(call.ret, p) = <<ProductVariant(p, call.scope, config[p].TagPrefix)>>
              /\ OfProduct(call.ret, p) = FilterVariantsByScope(config, <<p>>, call.scope)
        /\ \A i \in 1..Len(call.ret) : call.ret[i].Product \in TouchedOfCall

\* One commit refined for one product, widened for a second, scope-blind
\* for a third.
C3_Witness ==
    /\ call.op = "MatchCommit"
    /\ call.scope = "customerA"
    /\ \E p, q, r \in Touched(call.files) :
          /\ config[p].Variants = <<"customerA", "customerB">>
          /\ OfProduct(call.ret, p) = <<ProductVariant(p, "customerA", "")>>
          /\ config[q].Variants = <<"customerB">>
          /\ OfProduct(call.ret, q) = <<ProductVariant(q, "customerB", "")>>
          /\ config[r].Variants = <<>>
          /\ OfProduct(call.ret, r) = <<ProductVariant(r, "", "")>>

\* C4: when no changed file matches any glob of any product, MatchCommit
\* returns the empty result and MatchesProductVariant is false for every
\* target, whatever the scope: the commit is counted for no target.
C4_IrrelevantCommit ==
    /\ (call.op = "MatchCommit" /\ Touched(call.files) = {}) => call.ret = <<>>
    /\ (call.op = "MatchesProductVariant" /\ Touched(call.files) = {}) => call.ret = FALSE

C4_Witness ==
    /\ call.op = "MatchesProductVariant"
    /\ call.files # <<>>
    /\ call.scope = "customerA"
    /\ Touched(call.files) = {}
    /\ call.target.Product \in DOMAIN config
    /\ call.target.Variant \in Range(config[call.target.Product].Variants)
    /\ call.ret = FALSE

\* C5: MatchesProductVariant is true iff the result of MatchCommit holds an
\* identity with the product and the variant of the target, whatever
\* tag-prefix override the target carries.
C5_MatchesIffContained ==
    call.op = "MatchesProductVariant" =>
        \A affected \in MatchCommit(config, globs, call.scope, call.files) :
            call.ret = (\E pv \in Range(affected) :
                            pv.Product = call.target.Product /\ pv.Variant = call.target.Variant)

\* The target carries an override that no identity of the result carries.
C5_Witness ==
    /\ call.op = "MatchesProductVariant"
    /\ call.ret = TRUE
    /\ call.target.TagPrefix = "v"
    /\ \A affected \in MatchCommit(config, globs, call.scope, call.files) :
          \A pv \in Range(affected) : pv.TagPrefix = ""

(***************************************************************************)
(* Properties of the bump aggregator.                                      *)
(***************************************************************************)

BreakingRelease(c) == c.Breaking /\ c.Type \in {"feat", "fix"}

\* C6: DetermineBump is major if some commit is a breaking feat or fix,
\* otherwise minor if some commit is a feat, otherwise patch if some commit
\* is a fix, otherwise none; commits of other types never count, breaking
\* or not, and the empty sequence gives none.
C6_BumpTable ==
    call.op = "DetermineBump" =>
        call.ret = IF \E i \in 1..Len(commits) : BreakingRelease(commits[i]) THEN "major"
                   ELSE IF \E i \in 1..Len(commits) : commits[i].Type = "feat" THEN "minor"
                   ELSE IF \E i \in 1..Len(commits) : commits[i].Type = "fix" THEN "patch"
                   ELSE "none"

\* A breaking commit of another type next to a fix: the level is patch.
C6_Witness ==
    /\ call.op = "DetermineBump"
    /\ \E i, j \in 1..Len(commits) :
          /\ commits[i] = [Type |-> "chore", Breaking |-> TRUE]
          /\ commits[j] = [Type |-> "fix", Breaking |-> FALSE]
    /\ call.ret = "patch"

\* C7: after the insertion of a breaking feat at any position of any
\* sequence, DetermineBump is major.
C7_BreakingFeatInserted ==
    (/\ call.op = "DetermineBump"
     /\ call.pos > 0
     /\ commits[call.pos] = [Type |-> "feat", Breaking |-> TRUE])
        => call.ret = "major"

\* A breaking feat inserted in the middle, between a fix and a feat.
C7_Witness ==
    /\ call.op = "DetermineBump"
    /\ Len(commits) = 3
    /\ call.pos = 2
    /\ commits[1] = [Type |-> "fix", Breaking |-> FALSE]
    /\ commits[2] = [Type |-> "feat", Breaking |-> TRUE]
    /\ commits[3] = [Type |-> "feat", Breaking |-> FALSE]
    /\ call.ret = "major"

\* The rank of a level in major > minor > patch > none.
Rank(level) ==
    IF level = "major" THEN 3 ELSE IF level = "minor" THEN 2 ELSE IF level = "patch" THEN 1 ELSE 0

\* The level one commit asks for, taken alone.
LevelOf(c) ==
    IF BreakingRelease(c) THEN "major"
    ELSE IF c.Type = "feat" THEN "minor"
    ELSE IF c.Type = "fix" THEN "patch"
    ELSE "none"

\* A scan that reads every commit and keeps the highest level.
RECURSIVE FullScan(_, _, _)
FullScan(cs, i, level) ==
    IF i > Len(cs) THEN level
    ELSE FullScan(cs, i + 1, IF Rank(LevelOf(cs[i])) > Rank(level) THEN LevelOf(cs[i]) ELSE level)

\* C8: DetermineBump returns the same level for every order of the same
\* commits, and the level of a scan that reads every commit and keeps the
\* highest one.
C8_OrderIndependent ==
    call.op = "DetermineBump" =>
        /\ call.ret = FullScan(commits, 1, "none")
        /\ call.was # "" => call.ret = call.was

\* A reordered sequence on which the early return is taken after a commit
\* that moved the running level.
C8_Witness ==
    /\ call.op = "DetermineBump"
    /\ call.was = "major"
    /\ Len(commits) = 3
    /\ commits[1].Type = "feat" /\ ~commits[1].Breaking
    /\ BreakingRelease(commits[2])
    /\ call.ret = "major"

(***************************************************************************)
(* Properties of Version.                                                  *)
(***************************************************************************)

\* C9: Bump returns {major+1, 0, 0} for major, {major, minor+1, 0} for
\* minor, {major, minor, patch+1} for patch and the receiver for none and
\* for every other level; the call leaves the receiver as it was.
C9_BumpTable ==
    [][call'.op = "Bump" =>
        /\ current' = current
        /\ call'.level = "major" => call'.ret = Version(current.Major + 1, 0, 0)
        /\ call'.level = "minor" => call'.ret = Version(current.Major, current.Minor + 1, 0)
        /\ call'.level = "patch" => call'.ret = Version(current.Major, current.Minor, current.Patch + 1)
        /\ call'.level \notin {"major", "minor", "patch"} => call'.ret = current]_vars

\* A minor bump of a version with a patch component.
C9_Witness ==
    /\ call.op = "Bump"
    /\ call.level = "minor"
    /\ current = Version(1, 2, 3)
    /\ call.ret = Version(1, 3, 0)

\* A component written as String writes it: digits only, no leading zero.
Canonical(part) ==
    /\ Len(part) > 0
    /\ \A i \in 1..Len(part) : IsDigit(part[i])
    /\ Len(part) > 1 => part[1] # "0"

\* C10 as stated: for every accepted text, String gives the text back
\* without one leading v.
C10_RoundTripAccepted ==
    call.op = "String" => call.ret = TrimPrefix(call.s)

\* C10 as amended: an accepted text is given back without one leading v
\* exactly when its three components are written without sign and without
\* leading zero.
C10_RoundTripCanonical ==
    call.op = "String" =>
        (call.ret = TrimPrefix(call.s)
            <=> \A i \in 1..3 : Canonical(Split(TrimPrefix(call.s))[i]))

C10_Witness ==
    /\ call.op = "String"
    /\ call.s = <<"v", "1", ".", "0", ".", "1">>
    /\ call.ret = <<"1", ".", "0", ".", "1">>

\* A component written with decimal digits only.
Numeral(part) ==
    /\ Len(part) > 0
    /\ \A i \in 1..Len(part) : IsDigit(part[i])

\* Exactly three dot-separated digit-only components after at most one
\* leading v.
ThreeNumerals(s) ==
    LET parts == Split(TrimPrefix(s))
    IN  /\ Len(parts) = 3
        /\ \A i \in 1..3 : Numeral(parts[i])

\* C11: Parse succeeds only on text that, after at most one leading v, is
\* three dot-separated non-negative integer components; on every other text
\* (a part with a minus sign included) it returns an error and the zero
\* Version.
C11_ParseShape ==
    call.op = "Parse" =>
        /\ ~call.err <=> ThreeNumerals(call.s)
        /\ call.err => current = Zero

(***************************************************************************)
(* package commit: Parse.  Subject and body are sequences of one-character *)
(* strings.                                                                *)
(***************************************************************************)

LowerLetters == <<"a", "b", "c", "d", "e", "f", "g", "h", "i", "j", "k", "l", "m", "n", "o", "p", "q", "r", "s", "t", "u", "v", "w", "x", "y", "z">>

UpperLetters == <<"A", "B", "C", "D", "E", "F", "G", "H", "I", "J", "K", "L", "M", "N", "O", "P", "Q", "R", "S", "T", "U", "V", "W", "X", "Y", "Z">>

\* strings.ToUpper on one character.
ToUpperChar(ch) ==
    IF \E i \in 1..26 : LowerLetters[i] = ch
    THEN UpperLetters[CHOOSE i \in 1..26 : LowerLetters[i] = ch]
    ELSE ch

ToUpper(s) == [i \in 1..Len(s) |-> ToUpperChar(s[i])]

\* strings.Contains.
Contains(s, substr) ==
    \E i \in 1..(Len(s) - Len(substr) + 1) : SubSeq(s, i, i + Len(substr) - 1) = substr

BreakingChangeSpace == <<"B", "R", "E", "A", "K", "I", "N", "G", " ", "C", "H", "A", "N", "G", "E", ":">>

BreakingChangeHyphen == <<"B", "R", "E", "A", "K", "I", "N", "G", "-", "C", "H", "A", "N", "G", "E", ":">>

\* containsBreakingChange without the conversion to upper case.
containsBreakingChange_CaseSensitive(body) ==
    Contains(body, BreakingChangeSpace) \/ Contains(body, BreakingChangeHyphen)

containsBreakingChange(body) ==
    LET bodyUpper == ToUpper(body)
    IN  Contains(bodyUpper, BreakingChangeSpace) \/ Contains(bodyUpper, BreakingChangeHyphen)

\* The classes \w and \s of the regular expression, on the characters of
\* the model.
IsWordChar(ch) == IsDigit(ch) \/ ch = "_" \/ \E i \in 1..26 : LowerLetters[i] = ch \/ UpperLetters[i] = ch

IsSpaceChar(ch) == ch \in {" ", "\t", "\n", "\r"}

\* The first position from i on whose character is not of the class, or
\* Len(s) + 1.
RECURSIVE SkipWord(_, _)
SkipWord(s, i) == IF i <= Len(s) /\ IsWordChar(s[i]) THEN SkipWord(s, i + 1) ELSE i

RECURSIVE SkipSpace(_, _)
SkipSpace(s, i) == IF i <= Len(s) /\ IsSpaceChar(s[i]) THEN SkipSpace(s, i + 1) ELSE i

\* The first position from i on that holds ")", or Len(s) + 1.
RECURSIVE FindClose(_, _)
FindClose(s, i) == IF i <= Len(s) /\ s[i] # ")" THEN FindClose(s, i + 1) ELSE i

NoMatch == [ok |-> FALSE, type |-> <<>>, scope |-> <<>>, bang |-> FALSE, desc |-> <<>>]

\* conventionalCommitRegex.FindStringSubmatch, for
\* ^(\w+)(?:\(([^)]+)\))?(!)?\s*:\s*(.*)$ : every repetition is greedy and
\* no shorter repetition lets the rest match, so the match is found in one
\* scan from the left.
FindStringSubmatch(subject) ==
    LET typeEnd == SkipWord(subject, 1)
        hasOpen == typeEnd <= Len(subject) /\ subject[typeEnd] = "("
        close == FindClose(subject, typeEnd + 1)
        scopeOk == hasOpen => (close <= Len(subject) /\ close > typeEnd + 1)
        afterScope == IF hasOpen THEN close + 1 ELSE typeEnd
        hasBang == afterScope <= Len(subject) /\ subject[afterScope] = "!"
        afterBang == IF hasBang THEN afterScope + 1 ELSE afterScope
        colon == SkipSpace(subject, afterBang)
        descStart == SkipSpace(subject, colon + 1)
        desc == SubSeq(subject, descStart, Len(subject))
    IN  IF typeEnd = 1 THEN NoMatch
        ELSE IF ~scopeOk THEN NoMatch
        ELSE IF colon > Len(subject) THEN NoMatch
        ELSE IF subject[colon] # ":" THEN NoMatch
        ELSE IF \E k \in 1..Len(desc) : desc[k] = "\n" THEN NoMatch
        ELSE [ok |-> TRUE,
              type |-> SubSeq(subject, 1, typeEnd - 1),
              scope |-> IF hasOpen THEN SubSeq(subject, typeEnd + 1, close - 1) ELSE <<>>,
              bang |-> hasBang,
              desc |-> desc]

\* Parse that looks for the footer before it looks at the subject.
CommitParse_BodyFirst(subject, body) ==
    LET matches == FindStringSubmatch(subject)
    IN  IF ~matches.ok
        THEN [Type |-> <<>>, Scope |-> <<>>, Description |-> subject,
              Breaking |-> containsBreakingChange(body)]
        ELSE [Type |-> matches.type, Scope |-> matches.scope, Description |-> matches.desc,
              Breaking |-> matches.bang \/ containsBreakingChange(body)]

\* commit.Parse (Hash is set by the caller).
CommitParse(subject, body) ==
    LET matches == FindStringSubmatch(subject)
    IN  IF ~matches.ok
        THEN [Type |-> <<>>, Scope |-> <<>>, Description |-> subject, Breaking |-> FALSE]
        ELSE [Type |-> matches.type, Scope |-> matches.scope, Description |-> matches.desc,
              Breaking |-> IF ~matches.bang /\ containsBreakingChange(body) THEN TRUE
                           ELSE matches.bang]

(***************************************************************************)
(* commit.Parse as a state machine: each step parses one subject with one  *)
(* body, or looks for the footer in one body.                              *)
(***************************************************************************)

MaxSubject == 5

\* A word character, the characters of the grammar, a blank.
SubjectChars == {"f", "(", ")", "!", " ", ":"}

Subjects == SeqsUpTo(SubjectChars, MaxSubject)

\* The pieces bodies are put together from: text before, the two words in
\* three spellings, what separates them, what follows them, text after.
Befores == {<<>>, <<"x", "\n", "\n">>}

FirstWords == {<<"B", "R", "E", "A", "K", "I", "N", "G">>, <<"b", "r", "e", "a", "k", "i", "n", "g">>, <<"B", "r", "e", "a", "k", "i", "n", "g">>}

Separators == {<<" ">>, <<"-">>, <<"_">>, <<>>}

SecondWords == {<<"C", "H", "A", "N", "G", "E">>, <<"c", "h", "a", "n", "g", "e">>}

Colons == {<<":">>, <<>>, <<" ", ":">>}

Afters == {<<>>, <<" ", "y">>}

BodyParts == [before : Befores, first : FirstWords, sep : Separators,
              second : SecondWords, colon : Colons, after : Afters]

Assemble(p) == p.before \o p.first \o p.sep \o p.second \o p.colon \o p.after

\* The bodies Parse is called with: none, a footer in upper case, a footer
\* in lower case with a hyphen after other lines, the words without colon.
Footer == [before |-> <<>>, first |-> <<"B", "R", "E", "A", "K", "I", "N", "G">>, sep |-> <<" ">>,
           second |-> <<"C", "H", "A", "N", "G", "E">>, colon |-> <<":">>, after |-> <<" ", "y">>]

FooterLowerHyphen == [before |-> <<"x", "\n", "\n">>, first |-> <<"b", "r", "e", "a", "k", "i", "n", "g">>, sep |-> <<"-">>,
                      second |-> <<"c", "h", "a", "n", "g", "e">>, colon |-> <<":">>, after |-> <<" ", "y">>]

FooterNoColon == [before |-> <<>>, first |-> <<"B", "R", "E", "A", "K", "I", "N", "G">>, sep |-> <<" ">>,
                  second |-> <<"C", "H", "A", "N", "G", "E">>, colon |-> <<>>, after |-> <<>>]

Bodies == {<<>>, Assemble(Footer), Assemble(FooterLowerHyphen), Assemble(FooterNoColon)}

InitCommit ==
    /\ config = <<>>
    /\ globs = <<>>
    /\ commits = <<>>
    /\ current = Zero
    /\ repo = FullClone
    /\ call = NoCall

CallCommitParse ==
    /\ Idle
    /\ \E subject \in Subjects, body \in Bodies :
          call' = [op |-> "Parse", subject |-> subject, body |-> body,
                   ret |-> CommitParse(subject, body)]
    /\ UNCHANGED <<config, globs, commits, current, repo>>

CallContainsBreakingChange ==
    /\ Idle
    /\ \E p \in BodyParts :
          call' = [op |-> "containsBreakingChange", parts |-> p, body |-> Assemble(p),
                   ret |-> containsBreakingChange(Assemble(p))]
    /\ UNCHANGED <<config, globs, commits, current, repo>>

NextCommit ==
    \/ CallCommitParse
    \/ CallContainsBreakingChange
    \/ Return

SpecCommit == InitCommit /\ [][NextCommit]_vars

(***************************************************************************)
(* Properties of commit.Parse.                                             *)
(***************************************************************************)

\* The subject up to and including position i3 is type, optional (scope)
\* and optional "!": the type ends at i1, the scope part at i2.
Header(s, i1, i2, i3) ==
    /\ 1 <= i1 /\ i1 <= i2 /\ i2 <= i3 /\ i3 <= Len(s)
    /\ \A k \in 1..i1 : IsWordChar(s[k])
    /\ \/ i2 = i1
       \/ /\ i2 >= i1 + 3
          /\ s[i1 + 1] = "(" /\ s[i2] = ")"
          /\ \A k \in (i1 + 2)..(i2 - 1) : s[k] # ")"
    /\ \/ i3 = i2
       \/ i3 = i2 + 1 /\ s[i3] = "!"

\* The grammar type(scope)!: description, the colon directly after the
\* header.
Grammar(s) ==
    \E i1, i2, i3 \in 1..Len(s) : Header(s, i1, i2, i3) /\ i3 < Len(s) /\ s[i3 + 1] = ":"

\* The same grammar with blanks allowed between the header and the colon.
GrammarBlanks(s) ==
    \E i1, i2, i3, i4 \in 1..Len(s) :
        /\ Header(s, i1, i2, i3)
        /\ i3 <= i4 /\ i4 < Len(s)
        /\ \A k \in (i3 + 1)..i4 : IsSpaceChar(s[k])
        /\ s[i4 + 1] = ":"

\* The header ends with "!" and the colon follows it directly.
BangBeforeColon(s) ==
    \E i1, i2, i3 \in 1..Len(s) :
        Header(s, i1, i2, i3) /\ i3 = i2 + 1 /\ i3 < Len(s) /\ s[i3 + 1] = ":"

Unclassified(subject) ==
    [Type |-> <<>>, Scope |-> <<>>, Description |-> subject, Breaking |-> FALSE]

\* C12 as stated: a subject that does not match type(scope)!: description
\* gives empty type and scope, breaking false and the subject as
\* description, for every body.
C12_NoMatchUnclassified ==
    call.op = "Parse" /\ ~Grammar(call.subject) => call.ret = Unclassified(call.subject)

\* C12 as amended: the subjects that give the unclassified commit, for
\* every body, are exactly those that do not match the grammar with blanks
\* allowed before the colon.
C12_NoMatchBlanksUnclassified ==
    call.op = "Parse" =>
        (call.ret = Unclassified(call.subject) <=> ~GrammarBlanks(call.subject))

\* A subject without colon, with a footer in the body.
C12_Witness ==
    /\ call.op = "Parse"
    /\ call.subject = <<"f", " ", "f">>
    /\ call.body = Assemble(Footer)
    /\ call.ret = Unclassified(call.subject)

\* The letters of a and b are the same up to case.
SameFold(a, b) ==
    /\ Len(a) = Len(b)
    /\ \A k \in 1..Len(a) : ToUpperChar(a[k]) = ToUpperChar(b[k])

\* The body holds one of the two tokens at some position, in any case.
HasBreakingToken(body) ==
    \E i \in 1..Len(body) : \E j \in i..Len(body) :
        \/ SameFold(SubSeq(body, i, j), BreakingChangeSpace)
        \/ SameFold(SubSeq(body, i, j), BreakingChangeHyphen)

\* C13: on a subject that matches the grammar, breaking is true exactly
\* when "!" stands directly before the colon after the optional scope, or
\* the body holds BREAKING CHANGE: or BREAKING-CHANGE: somewhere, in any
\* letter case; the footer test is true exactly for the bodies whose two
\* words are separated by one blank or one hyphen and followed by a colon.
C13_BreakingIff ==
    /\ call.op = "Parse" /\ Grammar(call.subject) =>
          (call.ret.Breaking <=> BangBeforeColon(call.subject) \/ HasBreakingToken(call.body))
    /\ call.op = "containsBreakingChange" =>
          (call.ret <=> call.parts.sep \in {<<" ">>, <<"-">>} /\ call.parts.colon = <<":">>)

\* A scoped subject without "!", the footer in lower case after other
\* lines.
C13_Witness ==
    /\ call.op = "Parse"
    /\ call.subject = <<"f", "(", "f", ")", ":">>
    /\ call.body = Assemble(FooterLowerHyphen)
    /\ call.ret.Breaking

(***************************************************************************)
(* package commit: MatchesScopes and FilterByScopes.  A scope is a         *)
(* sequence of one-character strings, a type is a string.                  *)
(***************************************************************************)

\* s begins with prefix.
HasPrefix(s, prefix) == Len(prefix) <= Len(s) /\ SubSeq(s, 1, Len(prefix)) = prefix

\* The scan of the scope list with a test other than equality: the scope of
\* the commit begins an element.
RECURSIVE ScopeScan_Prefix(_, _, _)
ScopeScan_Prefix(scope, scopes, i) ==
    IF i > Len(scopes) THEN FALSE
    ELSE IF HasPrefix(scopes[i], scope) THEN TRUE
    ELSE ScopeScan_Prefix(scope, scopes, i + 1)

MatchesScopes_Prefix(c, scopes) ==
    IF c.Type = "" THEN FALSE
    ELSE IF c.Scope = <<>> THEN TRUE
    ELSE ScopeScan_Prefix(c.Scope, scopes, 1)

\* for _, s := range scopes { if c.Scope == s { return true } }; return false
RECURSIVE ScopeScan(_, _, _)
ScopeScan(scope, scopes, i) ==
    IF i > Len(scopes) THEN FALSE
    ELSE IF scope = scopes[i] THEN TRUE
    ELSE ScopeScan(scope, scopes, i + 1)

MatchesScopes(c, scopes) ==
    IF c.Type = "" THEN FALSE
    ELSE IF c.Scope = <<>> THEN TRUE
    ELSE ScopeScan(c.Scope, scopes, 1)

\* The commits that satisfy MatchesScopes, in their order.
RECURSIVE FilterByScopes(_, _)
FilterByScopes(cs, scopes) ==
    IF cs = <<>> THEN <<>>
    ELSE IF MatchesScopes(Head(cs), scopes)
         THEN <<Head(cs)>> \o FilterByScopes(Tail(cs), scopes)
         ELSE FilterByScopes(Tail(cs), scopes)

(***************************************************************************)
(* MatchesScopes as a state machine: each step is one call.                *)
(***************************************************************************)

MaxScopes == 2

\* Scope names, one a beginning of another; the empty name is what an
\* empty -scopes element gives.
ScopeNames == {<<>>, <<"a">>, <<"a", "b">>, <<"b">>}

ScopeLists == SeqsUpTo(ScopeNames, MaxScopes)

ScopedCommits == [Type : {"", "feat", "refactor"}, Scope : ScopeNames, Breaking : {FALSE}]

InitScopes ==
    /\ config = <<>>
    /\ globs = <<>>
    /\ commits = <<>>
    /\ current = Zero
    /\ repo = FullClone
    /\ call = NoCall

CallMatchesScopes ==
    /\ Idle
    /\ \E c \in ScopedCommits, scopes \in ScopeLists :
          call' = [op |-> "MatchesScopes", c |-> c, scopes |-> scopes,
                   ret |-> MatchesScopes(c, scopes)]
    /\ UNCHANGED <<config, globs, commits, current, repo>>

NextScopes ==
    \/ CallMatchesScopes
    \/ Return

SpecScopes == InitScopes /\ [][NextScopes]_vars

TypeString(t) ==
    IF t = <<>> THEN ""
    ELSE IF t = <<"f", "e", "a", "t">> THEN "feat"
    ELSE IF t = <<"f", "i", "x">> THEN "fix"
    ELSE "chore"

\* commit.Parse(ci.Subject, ci.Body) of a commit of the history.
ParsedCommit(item) ==
    LET c == CommitParse(item.subject, item.body)
    IN  [Type |-> TypeString(c.Type), Scope |-> c.Scope, Breaking |-> c.Breaking]

\* \d+\.\d+\.\d+
VersionPattern(text) ==
    LET parts == Split(text)
    IN  Len(parts) = 3 /\ \A i \in 1..3 : Numeral(parts[i])

\* An order that compares the major component only.
VersionGreater_MajorOnly(v, w) == v.Major > w.Major

\* The sort order of FindLastTag: v before w.
VersionGreater(v, w) ==
    IF v.Major # w.Major THEN v.Major > w.Major
    ELSE IF v.Minor # w.Minor THEN v.Minor > w.Minor
    ELSE v.Patch > w.Patch

\* The tags that git tag -l prefix* lists and the regular expression and
\* version.Parse keep, with their versions.
TagInfos(history, prefix) ==
    {[Name |-> history[i].name,
      Version |-> Parse(SubSeq(history[i].name, Len(prefix) + 1, Len(history[i].name))).v] :
        i \in {k \in 1..Len(history) :
                 /\ history[k].kind = "tag"
                 /\ HasPrefix(history[k].name, prefix)
                 /\ VersionPattern(SubSeq(history[k].name, Len(prefix) + 1, Len(history[k].name)))
                 /\ ~Parse(SubSeq(history[k].name, Len(prefix) + 1, Len(history[k].name))).err}}

NoTag == [Name |-> <<>>, Version |-> Zero]

\* FindLastTag that returns the newest tag of the product.
FindLastTag_Newest(history, product) ==
    LET infos == TagInfos(history, product \o <<"-", "v">>)
        at(t) == CHOOSE i \in 1..Len(history) : history[i].kind = "tag" /\ history[i].name = t.Name
    IN  IF infos = {} THEN {NoTag}
        ELSE {t \in infos : \A u \in infos : at(u) <= at(t)}

\* FindLastTag: the first tag after sorting by version, descending.  The
\* sort is not stable, so each of the tags with the highest version can
\* come first.
FindLastTag(history, product) ==
    LET infos == TagInfos(history, product \o <<"-", "v">>)
    IN  IF infos = {} THEN {NoTag}
        ELSE {t \in infos : \A u \in infos : ~VersionGreater(u.Version, t.Version)}

\* The commits of a history, newest first.
RECURSIVE LogOf(_)
LogOf(history) ==
    IF history = <<>> THEN <<>>
    ELSE LET last == history[Len(history)]
             rest == LogOf(SubSeq(history, 1, Len(history) - 1))
         IN  IF last.kind = "commit" THEN <<last>> \o rest ELSE rest

\* GetCommitsSince: git log tag..HEAD, or git log when there is no tag.
GetCommitsSince(history, tag) ==
    IF tag = <<>> THEN LogOf(history)
    ELSE LET at == CHOOSE i \in 1..Len(history) : history[i].kind = "tag" /\ history[i].name = tag
         IN  LogOf(SubSeq(history, at + 1, Len(history)))

\* The loop of runLegacy over commitInfos.
ParseAll(infos) == [i \in 1..Len(infos) |-> ParsedCommit(infos[i])]

\* runLegacy, given the tag FindLastTag returned: the Result it prints.
\* The result runLegacy builds from the bump and the number of commits.
LegacyResultWith(product, v, bump, n) ==
    [Product |-> product,
     Current |-> String(v),
     Next |-> String(Bump(v, bump)),
     Bump |-> bump,
     Commits |-> n]

\* runLegacy from the filtered commits on: the bump and the result.
LegacyResultOf(product, v, filteredCommits) ==
    LegacyResultWith(product, v,
        DetermineBump([i \in 1..Len(filteredCommits) |->
            [Type |-> filteredCommits[i].Type, Breaking |-> filteredCommits[i].Breaking]]),
        Len(filteredCommits))

LegacyResult(history, product, scopes, last) ==
    LegacyResultOf(product, last.Version,
        FilterByScopes(ParseAll(GetCommitsSince(history, last.Name)), scopes))

(***************************************************************************)
(* Legacy mode as a state machine: the history grows by commits and tags;  *)
(* runLegacy is run on the history as it stands.                           *)
(***************************************************************************)

MaxHistory == 3

\* Commit messages: bumping and non-bumping types, with scope a, with
\* scope b and a footer, without scope, without type.
Messages ==
    {[kind |-> "commit", subject |-> <<"f", "e", "a", "t", "(", "a", ")", ":", " ", "x">>,
     body |-> <<>>],
     [kind |-> "commit", subject |-> <<"f", "i", "x", "(", "a", ")", ":", " ", "x">>,
     body |-> <<>>],
     [kind |-> "commit", subject |-> <<"r", "e", "f", "a", "c", "t", "o", "r", "(", "a", ")", ":", " ", "x">>,
     body |-> <<>>],
     [kind |-> "commit", subject |-> <<"W", "I", "P", ":", " ", "x">>,
     body |-> <<>>],
     [kind |-> "commit", subject |-> <<"M", "e", "r", "g", "e", " ", "x">>,
     body |-> <<>>],
     [kind |-> "commit", subject |-> <<"f", "i", "x", "(", "b", ")", ":", " ", "x">>,
     body |-> Assemble(Footer)],
     [kind |-> "commit", subject |-> <<"f", "e", "a", "t", "(", "a", ")", "!", ":", " ", "x">>,
     body |-> <<>>]}

\* Tags: of product app (one with leading zero, one with a suffix) and of
\* product web.
TagItems ==
    {[kind |-> "tag", name |-> <<"a", "p", "p", "-", "v", "0", ".", "1", ".", "0">>],
     [kind |-> "tag", name |-> <<"a", "p", "p", "-", "v", "1", ".", "0", ".", "0">>],
     [kind |-> "tag", name |-> <<"a", "p", "p", "-", "v", "0", "1", ".", "0", ".", "0">>],
     [kind |-> "tag", name |-> <<"a", "p", "p", "-", "v", "1", ".", "1", ".", "0", "_", "i">>],
     [kind |-> "tag", name |-> <<"w", "e", "b", "-", "v", "2", ".", "0", ".", "0">>]}

LegacyProducts == {<<"a", "p", "p">>, <<"w", "e", "b">>}

LegacyScopes == {<<>>, <<<<"a">>>>, <<<<"b">>, <<"a">>>>}

InitLegacy ==
    /\ config = <<>>
    /\ globs = <<>>
    /\ commits = <<>>
    /\ current = Zero
    /\ repo = FullClone
    /\ call = NoCall

\* git commit.
GitCommit ==
    /\ Idle
    /\ Len(commits) < MaxHistory
    /\ \E m \in Messages : commits' = Append(commits, m)
    /\ UNCHANGED <<config, globs, current, repo, call>>

\* git tag, on the newest commit.
GitTag ==
    /\ Idle
    /\ Len(commits) < MaxHistory
    /\ \E i \in 1..Len(commits) : commits[i].kind = "commit"
    /\ \E t \in TagItems :
          /\ \A i \in 1..Len(commits) : commits[i] # t
          /\ commits' = Append(commits, t)
    /\ UNCHANGED <<config, globs, current, repo, call>>

RunLegacy ==
    /\ Idle
    /\ \E product \in LegacyProducts, scopes \in LegacyScopes :
          \E last \in FindLastTag(commits, product) :
              call' = [op |-> "runLegacy", product |-> product, scopes |-> scopes,
                       result |-> LegacyResult(commits, product, scopes, last)]
    /\ UNCHANGED <<config, globs, commits, current, repo>>

NextLegacy ==
    \/ GitCommit
    \/ GitTag
    \/ RunLegacy
    \/ Return

SpecLegacy == InitLegacy /\ [][NextLegacy]_vars

(***************************************************************************)
(* Properties of legacy mode.                                              *)
(***************************************************************************)

\* The positions of the tags product-vX.Y.Z of the history.
ProductTagsAt(product) ==
    {i \in 1..Len(commits) :
        /\ commits[i].kind = "tag"
        /\ HasPrefix(commits[i].name, product \o <<"-", "v">>)
        /\ VersionPattern(SubSeq(commits[i].name, Len(product) + 3, Len(commits[i].name)))}

VersionAt(product, i) == Parse(SubSeq(commits[i].name, Len(product) + 3, Len(commits[i].name))).v

\* The positions after position i of the commits that satisfy
\* MatchesScopes.
CountedSince(i, scopes) ==
    {k \in (i + 1)..Len(commits) :
        commits[k].kind = "commit" /\ MatchesScopes(ParsedCommit(commits[k]), scopes)}

\* The level of a set of commits of the history: major if one is a
\* breaking feat or fix, else minor if one is a feat, else patch if one is
\* a fix, else none.
LevelOfSet(K) ==
    LET P(k) == ParsedCommit(commits[k])
    IN  IF \E k \in K : P(k).Breaking /\ P(k).Type \in {"feat", "fix"} THEN "major"
        ELSE IF \E k \in K : P(k).Type = "feat" THEN "minor"
        ELSE IF \E k \in K : P(k).Type = "fix" THEN "patch"
        ELSE "none"

\* The result is the one for current version v and the commits after
\* position i.
LegacyResultIs(result, scopes, v, i) ==
    /\ result.Current = String(v)
    /\ result.Commits = Cardinality(CountedSince(i, scopes))
    /\ result.Bump = LevelOfSet(CountedSince(i, scopes))
    /\ result.Next = String(Bump(v, result.Bump))
    /\ result.Next = result.Current <=> result.Bump = "none"

FieldSep == "---FIELD-SEP---"

FileSep == "---FILE-SEP---"

\* strings.Split(s, sep) for a separator of one token.
RECURSIVE SplitOnFrom(_, _, _, _)
SplitOnFrom(s, sep, i, cur) ==
    IF i > Len(s) THEN <<cur>>
    ELSE IF s[i] = sep THEN <<cur>> \o SplitOnFrom(s, sep, i + 1, <<>>)
    ELSE SplitOnFrom(s, sep, i + 1, Append(cur, s[i]))

SplitOn(s, sep) == SplitOnFrom(s, sep, 1, <<>>)

\* strings.TrimSpace.
RECURSIVE TrimSpace(_)
TrimSpace(s) ==
    IF s = <<>> THEN s
    ELSE IF IsSpaceChar(s[1]) THEN TrimSpace(Tail(s))
    ELSE IF IsSpaceChar(s[Len(s)]) THEN TrimSpace(SubSeq(s, 1, Len(s) - 1))
    ELSE s

\* strings.TrimSuffix(line, fileSep).
TrimSuffix(line, suffix) ==
    IF Len(line) > 0 /\ line[Len(line)] = suffix THEN SubSeq(line, 1, Len(line) - 1) ELSE line

\* strings.SplitN(line, fieldSep, 3).
SplitN3(line, sep) ==
    LET at == {i \in 1..Len(line) : line[i] = sep}
    IN  IF at = {} THEN <<line>>
        ELSE LET p1 == CHOOSE i \in at : \A j \in at : i <= j
                 later == {i \in at : i > p1}
             IN  IF later = {} THEN <<SubSeq(line, 1, p1 - 1), SubSeq(line, p1 + 1, Len(line))>>
                 ELSE LET p2 == CHOOSE i \in later : \A j \in later : i <= j
                      IN  <<SubSeq(line, 1, p1 - 1), SubSeq(line, p1 + 1, p2 - 1),
                            SubSeq(line, p2 + 1, Len(line))>>

\* A path as git prints it: its segments joined with "/".
RECURSIVE JoinPath(_)
JoinPath(path) ==
    IF Len(path) <= 1 THEN path ELSE <<Head(path), "/">> \o JoinPath(Tail(path))

\* The names git prints for --name-only, one per line.
RECURSIVE NameOnly(_)
NameOnly(files) ==
    IF files = <<>> THEN <<>> ELSE JoinPath(Head(files)) \o <<"\n">> \o NameOnly(Tail(files))

\* What git log --format=%%H<fieldSep>%%s<fieldSep>%%b<fileSep> --name-only
\* prints for one commit: the formatted line (the body, when there is one,
\* ends with a newline), an empty line and the names of the changed files,
\* an empty line.
LogEntry(c) ==
    <<c.hash, FieldSep>> \o c.subject \o <<FieldSep>>
        \o (IF c.body = <<>> THEN <<>> ELSE c.body \o <<"\n">>)
        \o <<FileSep, "\n">>
        \o (IF c.files = <<>> THEN <<>> ELSE <<"\n">> \o NameOnly(c.files))
        \o <<"\n">>

RECURSIVE LogText(_)
LogText(log) == IF log = <<>> THEN <<>> ELSE LogEntry(Head(log)) \o LogText(Tail(log))

\* The loop of parseCommitsWithFiles over the lines: cur is currentCommit
\* (<<>> for nil, else a one-element sequence), and collectingFiles is set
\* exactly when cur is.
RECURSIVE ParseLines(_, _, _, _)
ParseLines(lines, i, done, cur) ==
    IF i > Len(lines) THEN done \o cur
    ELSE IF \E k \in 1..Len(lines[i]) : lines[i][k] = FieldSep
    THEN LET parts == SplitN3(TrimSuffix(lines[i], FileSep), FieldSep)
         IN  IF Len(parts) < 2 THEN ParseLines(lines, i + 1, done \o cur, <<>>)
             ELSE ParseLines(lines, i + 1, done \o cur,
                    <<[Hash |-> TrimSpace(parts[1]),
                       Subject |-> TrimSpace(parts[2]),
                       Body |-> IF Len(parts) > 2 THEN TrimSpace(parts[3]) ELSE <<>>,
                       Files |-> <<>>]>>)
    ELSE IF cur # <<>> /\ TrimSpace(lines[i]) # <<>>
    THEN ParseLines(lines, i + 1, done,
            <<[cur[1] EXCEPT !.Files = Append(cur[1].Files, TrimSpace(lines[i]))]>>)
    ELSE ParseLines(lines, i + 1, done, cur)

parseCommitsWithFiles(output) ==
    IF output = <<>> THEN <<>> ELSE ParseLines(SplitOn(output, "\n"), 1, <<>>, <<>>)

(***************************************************************************)
(* package config: the identities of a registry and their tag names.       *)
(***************************************************************************)

\* The names of the registries below in the order of Go's < on strings.
NamesInOrder == <<"", "customerA", "customerB", "mobile", "mobile-customerA", "web">>

StringLess(a, b) ==
    \E i, j \in 1..Len(NamesInOrder) : NamesInOrder[i] = a /\ NamesInOrder[j] = b /\ i < j

\* TagName that returns every override as it is.
TagName_Verbatim(pv) ==
    IF pv.TagPrefix # "" THEN pv.TagPrefix
    ELSE IF pv.Variant = "" THEN pv.Product
    ELSE pv.Product \o "-" \o pv.Variant

\* ProductVariant.TagName.
TagName(pv) ==
    IF pv.TagPrefix # ""
    THEN (IF pv.TagPrefix = "v" THEN "" ELSE pv.TagPrefix)
    ELSE IF pv.Variant = "" THEN pv.Product
    ELSE pv.Product \o "-" \o pv.Variant

\* The identities GetAllProductVariants appends for one product.
ExpandProduct(c, productName) ==
    IF Len(c[productName].Variants) = 0
    THEN <<ProductVariant(productName, "", c[productName].TagPrefix)>>
    ELSE [i \in 1..Len(c[productName].Variants) |->
            ProductVariant(productName, c[productName].Variants[i], c[productName].TagPrefix)]

\* result after the loop over c.Products in the given iteration order.
RECURSIVE ExpandAll(_, _)
ExpandAll(c, order) ==
    IF order = <<>> THEN <<>> ELSE ExpandProduct(c, Head(order)) \o ExpandAll(c, Tail(order))

\* The less function of the sort.
ProductVariantLess(a, b) ==
    IF a.Product # b.Product THEN StringLess(a.Product, b.Product)
    ELSE StringLess(a.Variant, b.Variant)

\* sort.Slice: the sort is not stable, but two elements that neither is
\* less than the other are of one product and one variant name, so equal;
\* insertion gives the one sorted sequence.
RECURSIVE InsertSorted(_, _)
InsertSorted(sorted, x) ==
    IF sorted = <<>> THEN <<x>>
    ELSE IF ProductVariantLess(x, Head(sorted)) THEN <<x>> \o sorted
    ELSE <<Head(sorted)>> \o InsertSorted(Tail(sorted), x)

RECURSIVE SortSlice(_)
SortSlice(result) ==
    IF result = <<>> THEN <<>>
    ELSE InsertSorted(SortSlice(SubSeq(result, 1, Len(result) - 1)), result[Len(result)])

\* GetAllProductVariants without the sort.
GetAllProductVariants_Unsorted(c, order) == ExpandAll(c, order)

\* GetAllProductVariants, for one iteration order of c.Products.
GetAllProductVariants(c, order) == SortSlice(ExpandAll(c, order))

(***************************************************************************)
(* The registry as a state machine: it is loaded once; every later step is *)
(* one call on it.                                                         *)
(***************************************************************************)

\* Registries: a product whose name is the default tag name of a variant
\* of another; variant lists out of order and with a name twice; an
\* override on any product.
IdentityProducts == {"mobile", "mobile-customerA", "web"}

IdentityVariantLists ==
    {<<>>, <<"customerA">>, <<"customerB", "customerA">>, <<"customerA", "customerA">>}

IdentityTagPrefixes == {"", "v", "app"}

IdentityRegistries ==
    UNION {[S -> [Globs : {<<>>}, Variants : IdentityVariantLists, TagPrefix : IdentityTagPrefixes]] :
             S \in (SUBSET IdentityProducts) \ {{}}}

InitIdentities ==
    /\ config \in IdentityRegistries
    /\ globs = <<>>
    /\ commits = <<>>
    /\ current = Zero
    /\ repo = FullClone
    /\ call = NoCall

CallGetAllProductVariants ==
    /\ Idle
    /\ \E order \in Orders(DOMAIN config) :
          call' = [op |-> "GetAllProductVariants", ret |-> GetAllProductVariants(config, order)]
    /\ UNCHANGED <<config, globs, commits, current, repo>>

\* TagName of an identity of the registry.
CallTagName ==
    /\ Idle
    /\ \E order \in Orders(DOMAIN config) :
          \E i \in 1..Len(GetAllProductVariants(config, order)) :
              call' = [op |-> "TagName", pv |-> GetAllProductVariants(config, order)[i],
                       ret |-> TagName(GetAllProductVariants(config, order)[i])]
    /\ UNCHANGED <<config, globs, commits, current, repo>>

NextIdentities ==
    \/ CallGetAllProductVariants
    \/ CallTagName
    \/ Return

SpecIdentities == InitIdentities /\ [][NextIdentities]_vars

(***************************************************************************)
(* Properties of the identities.                                           *)
(***************************************************************************)

\* How often the identity (p, v) stands in ret.
Occurrences(ret, p, v) ==
    Cardinality({i \in 1..Len(ret) : ret[i].Product = p /\ ret[i].Variant = v})

\* How often v stands in the variant list of p.
TimesListed(p, v) ==
    Cardinality({i \in 1..Len(config[p].Variants) : config[p].Variants[i] = v})

\* ret holds identities of the configuration only: of its products, with
\* the empty variant for a product without variants and with a listed
\* variant otherwise.
OnlyConfigured(ret) ==
    \A i \in 1..Len(ret) :
        /\ ret[i].Product \in DOMAIN config
        /\ IF Len(config[ret[i].Product].Variants) = 0 THEN ret[i].Variant = ""
           ELSE TimesListed(ret[i].Product, ret[i].Variant) > 0

\* ret is ascending by product name, then by variant name.
Ascending(ret) ==
    \A i, j \in 1..Len(ret) : i < j => ~ProductVariantLess(ret[j], ret[i])

\* C17 as stated: the result holds exactly one identity per (product,
\* variant) pair of the configuration, exactly one with empty variant per
\* product without variants, nothing else, ascending by product and
\* variant, whatever the iteration order.
C17_OnePerPair ==
    call.op = "GetAllProductVariants" =>
        /\ OnlyConfigured(call.ret)
        /\ Ascending(call.ret)
        /\ \A p \in DOMAIN config :
              IF Len(config[p].Variants) = 0 THEN Occurrences(call.ret, p, "") = 1
              ELSE \A i \in 1..Len(config[p].Variants) :
                      Occurrences(call.ret, p, config[p].Variants[i]) = 1

\* C17 as amended: the result holds one identity per entry of each variant
\* list (a variant listed twice gives two equal identities), one with empty
\* variant per product without variants, nothing else, ascending by
\* product and variant, whatever the iteration order.
C17_OnePerEntry ==
    call.op = "GetAllProductVariants" =>
        /\ OnlyConfigured(call.ret)
        /\ Ascending(call.ret)
        /\ \A p \in DOMAIN config :
              IF Len(config[p].Variants) = 0 THEN Occurrences(call.ret, p, "") = 1
              ELSE \A i \in 1..Len(config[p].Variants) :
                      Occurrences(call.ret, p, config[p].Variants[i])
                          = TimesListed(p, config[p].Variants[i])

\* Two products, the variants of one listed out of order, the other
\* without variants.
C17_Witness ==
    /\ call.op = "GetAllProductVariants"
    /\ DOMAIN config = {"mobile", "web"}
    /\ config["mobile"].Variants = <<"customerB", "customerA">>
    /\ config["web"].Variants = <<>>
    /\ Len(call.ret) = 3
    /\ call.ret[1].Variant = "customerA"
    /\ call.ret[2].Variant = "customerB"
    /\ call.ret[3].Product = "web"

\* The default tag names, written out.
DefaultTagName(product, variant) ==
    IF variant = "" THEN product
    ELSE IF product = "mobile"
         THEN (IF variant = "customerA" THEN "mobile-customerA" ELSE "mobile-customerB")
    ELSE IF product = "web"
         THEN (IF variant = "customerA" THEN "web-customerA" ELSE "web-customerB")
    ELSE (IF variant = "customerA" THEN "mobile-customerA-customerA"
          ELSE "mobile-customerA-customerB")

C19_TagNamesDistinct ==
    call.op = "GetAllProductVariants" =>
        \A i, j \in 1..Len(call.ret) :
            (call.ret[i].Product # call.ret[j].Product \/ call.ret[i].Variant # call.ret[j].Variant)
                => TagName(call.ret[i]) # TagName(call.ret[j])

(***************************************************************************)
(* MatchFiles as a state machine, over registries with several globs per   *)
(* product and path lists with several paths.                              *)
(***************************************************************************)

MaxPaths == 2

PatMobileCommon == <<"libs", "mobile-common", "**">>

PatWebCommon == <<"libs", "web-common", "**">>

MainTs == <<"apps", "mobile", "main.ts">>

UtilsTs == <<"libs", "mobile-common", "utils.ts">>

SharedTs == <<"libs", "shared", "util.ts">>

Readme == <<"README.md">>

ChangedPaths == {MainTs, UtilsTs, SharedTs, Readme}

PathLists == SeqsUpTo(ChangedPaths, MaxPaths)

\* Registries of one or two products, each without globs, with one glob or
\* with two.
MultiGlobLists == {<<>>, <<PatMobile>>, <<PatMobile, PatMobileCommon>>, <<PatWebCommon>>}

MultiGlobRegistries ==
    UNION {[S -> [Globs : MultiGlobLists, Variants : {<<>>}, TagPrefix : {""}]] :
             S \in (SUBSET {"mobile", "web"}) \ {{}}}

InitMatchFiles ==
    /\ config \in MultiGlobRegistries
    /\ globs = NewMatcher(config)
    /\ commits = <<>>
    /\ current = Zero
    /\ repo = FullClone
    /\ call = NoCall

CallMatchFilesOfPaths ==
    /\ Idle
    /\ \E files \in PathLists : \E ret \in MatchFiles(globs, files) :
          call' = [op |-> "MatchFiles", files |-> files, ret |-> ret]
    /\ UNCHANGED <<config, globs, commits, current, repo>>

NextMatchFiles ==
    \/ CallMatchFilesOfPaths
    \/ Return

SpecMatchFiles == InitMatchFiles /\ [][NextMatchFiles]_vars

\* Which of the paths each of the patterns matches, written out.
PatternMatchesPath(pattern, path) ==
    \/ pattern = <<"**">>
    \/ pattern = PatMobile /\ path = MainTs
    \/ pattern = PatMobileCommon /\ path = UtilsTs

\* C20: MatchFiles returns each product at most once, and product p exactly
\* when some path matches some glob of p, a product without globs having
\* the single glob **; so a product without globs is returned for every
\* non-empty path list, and the result for the empty path list is empty.
C20_MatchFilesUnion ==
    call.op = "MatchFiles" =>
        /\ \A i, j \in 1..Len(call.ret) : call.ret[i] = call.ret[j] => i = j
        /\ \A i \in 1..Len(call.ret) : call.ret[i] \in DOMAIN config
        /\ \A p \in DOMAIN config :
              LET patterns == IF Len(config[p].Globs) = 0 THEN {<<"**">>} ELSE Range(config[p].Globs)
              IN  /\ p \in Range(call.ret) <=>
                        \E f \in 1..Len(call.files) : \E g \in patterns :
                            PatternMatchesPath(g, call.files[f])
                  /\ Len(config[p].Globs) = 0 /\ Len(call.files) > 0 => p \in Range(call.ret)
        /\ Len(call.files) = 0 => call.ret = <<>>

\* Two paths, the second of which matches the second glob of mobile; web
\* has no globs.
C20_Witness ==
    /\ call.op = "MatchFiles"
    /\ DOMAIN config = {"mobile", "web"}
    /\ config["mobile"].Globs = <<PatMobile, PatMobileCommon>>
    /\ config["web"].Globs = <<>>
    /\ call.files = <<SharedTs, UtilsTs>>
    /\ Range(call.ret) = {"mobile", "web"}

(***************************************************************************)
(* Config mode.  The registry holds names as strings, the repository holds *)
(* tag names, scopes and lines as sequences of tokens; Spell and NameOf    *)
(* carry a name from one form to the other.                                *)
(***************************************************************************)

KnownNames == {"customerA", "customerB", "mobile", "web", "mobile-customerA", "mobile-customerB"}

Spell(name) ==
    IF name = "" THEN <<>>
    ELSE IF name = "customerA" THEN <<"c", "u", "s", "t", "o", "m", "e", "r", "A">>
    ELSE IF name = "customerB" THEN <<"c", "u", "s", "t", "o", "m", "e", "r", "B">>
    ELSE IF name = "mobile" THEN <<"m", "o", "b", "i", "l", "e">>
    ELSE IF name = "web" THEN <<"w", "e", "b">>
    ELSE IF name = "mobile-customerA" THEN <<"m", "o", "b", "i", "l", "e", "-", "c", "u", "s", "t", "o", "m", "e", "r", "A">>
    ELSE IF name = "mobile-customerB" THEN <<"m", "o", "b", "i", "l", "e", "-", "c", "u", "s", "t", "o", "m", "e", "r", "B">>
    ELSE <<name>>

\* The name a sequence of characters spells; "?" stands for every text
\* that is no name of the registry.
NameOf(text) ==
    IF \E n \in KnownNames : Spell(n) = text
    THEN CHOOSE n \in KnownNames : Spell(n) = text
    ELSE IF text = <<>> THEN "" ELSE "?"

\* A line of the log as the path handed to the matcher: its segments, a
\* segment of one token being a directory or file name.
PathOf(line) ==
    LET segments == SplitOn(line, "/")
    IN  [i \in 1..Len(segments) |-> IF Len(segments[i]) = 1 THEN segments[i][1] ELSE "?"]

\* FindLastTagByPrefix: as FindLastTag, for v* tags when the prefix is
\* empty.
FindLastTagByPrefix(history, tagPrefix) ==
    LET infos == TagInfos(history, IF tagPrefix = "" THEN <<"v">> ELSE Spell(tagPrefix) \o <<"-", "v">>)
    IN  IF infos = {} THEN {NoTag}
        ELSE {t \in infos : \A u \in infos : ~VersionGreater(u.Version, t.Version)}

(***************************************************************************)
(* package git: history widening.  The history is linear with HEAD at its  *)
(* newest commit; a tag marks the newest commit before it.  In the clone   *)
(* the oldest repo.missing items of the history are cut off from HEAD: a   *)
(* tag on a commit that is cut off is listed but is no ancestor of HEAD.   *)
(* A git command whose outcome the clone does not determine (a fetch, a    *)
(* lookup that may fail) has every outcome: the functions that run one     *)
(* give the set of their possible returns.                                 *)
(***************************************************************************)

\* The hash of the n-th item of the history.
Hashes == <<"h1", "h2", "h3", "h4", "h5">>

\* The git commands that fetch.
FetchCommands ==
    {"fetch --unshallow", "fetch --deepen", "fetch origin tag", "fetch origin commit --depth",
     "fetch origin --depth", "fetch origin"}

\* hasCommits: git rev-parse HEAD.
hasCommits(history) == \E i \in 1..Len(history) : history[i].kind = "commit"

\* The position of the commit the tag marks; 0 for a tag the repository
\* does not have.
TagCommitAt(history, tag) ==
    LET at == {i \in 1..Len(history) : history[i].kind = "tag" /\ history[i].name = tag}
        before == {k \in 1..Len(history) :
                     history[k].kind = "commit" /\ \E i \in at : k < i}
    IN  IF before = {} THEN 0 ELSE CHOOSE k \in before : \A m \in before : m <= k

\* IsTagReachableFromHead: git merge-base --is-ancestor tag HEAD; every
\* failure of the command reads as "not reachable", the error is always
\* nil.
IsTagReachableFromHead(history, tag, rp) ==
    tag = <<>> \/ TagCommitAt(history, tag) > rp.missing

IsShallowRepo(rp) == rp.shallow

\* git log tag..HEAD (git log without tag) in the clone: the commits
\* connected to HEAD that are no ancestors of the tag, newest first.
LogSince(history, tag, rp) ==
    LET from == IF TagCommitAt(history, tag) > rp.missing
                THEN CHOOSE i \in 1..Len(history) : history[i].kind = "tag" /\ history[i].name = tag
                ELSE rp.missing
    IN  LogOf(SubSeq(history, from + 1, Len(history)))

\* CountCommitsSince: git rev-list --count gives the count, or fails.  The
\* possible returns [count, err].
CountCommitsSince(history, tag, rp) ==
    {[count |-> Len(LogSince(history, tag, rp)), err |-> FALSE], [count |-> 0, err |-> TRUE]}

\* The clone after a fetch: the fetch failed or brought nothing that
\* connects (the clone is as before), or the cut-off history is connected.
AfterFetch(rp) == {rp, [rp EXCEPT !.missing = 0]}

\* The clone after a fetch --unshallow or --deepen that succeeded: no
\* longer shallow; the cut-off history is connected unless it is not part
\* of the branch.
Unshallowed(rp) == {[shallow |-> FALSE, missing |-> m] : m \in {0, rp.missing}}

\* The steps of EnsureFullHistoryToTag carry st = [fetchAttempted, failed,
\* cmds, repo]: the flag, whether the function has returned an error, the
\* commands run so far and the clone.  Each step gives the set of states
\* it can leave, one per outcome of the commands it runs.

\* The block "if IsShallowRepo()".
UnshallowStep(st) ==
    IF ~IsShallowRepo(st.repo) THEN {st}
    ELSE {[fetchAttempted |-> TRUE, failed |-> FALSE,
           cmds |-> st.cmds \o <<"fetch --unshallow">>, repo |-> r] : r \in Unshallowed(st.repo)}
         \cup
         {[fetchAttempted |-> TRUE, failed |-> FALSE,
           cmds |-> st.cmds \o <<"fetch --unshallow", "fetch --deepen">>, repo |-> r] :
             r \in Unshallowed(st.repo)}
         \cup
         {[fetchAttempted |-> TRUE, failed |-> TRUE,
           cmds |-> st.cmds \o <<"fetch --unshallow", "fetch --deepen">>, repo |-> st.repo]}

\* The block "if !reachable": the fetch of the tag, and the fetch of its
\* commit when rev-parse resolves it.
FetchTagStep(history, tag, st) ==
    IF IsTagReachableFromHead(history, tag, st.repo) THEN {st}
    ELSE {[fetchAttempted |-> TRUE, failed |-> FALSE,
           cmds |-> st.cmds \o <<"fetch origin tag", "rev-parse tag^{commit}">> \o more,
           repo |-> r] :
             more \in {<<>>, <<"fetch origin commit --depth">>}, r \in AfterFetch(st.repo)}

\* The block "if commitCount <= 1 && !fetchAttempted" that leaves the flag
\* as it is.
CountFetchStep_Unflagged(history, tag, st) ==
    UNION {IF counted.count <= 1 /\ ~st.fetchAttempted
           THEN {[st EXCEPT !.cmds = st.cmds \o <<"fetch origin --depth">>]}
           ELSE {st} : counted \in CountCommitsSince(history, tag, st.repo)}

\* The block "if commitCount <= 1 && !fetchAttempted": the fetch of the
\* branch, and the fetch without depth when it fails.
CountFetchStep(history, tag, st) ==
    UNION {IF counted.count <= 1 /\ ~st.fetchAttempted
           THEN {[fetchAttempted |-> TRUE, failed |-> FALSE,
                  cmds |-> st.cmds \o <<"fetch origin --depth">> \o more, repo |-> r] :
                    more \in {<<>>, <<"fetch origin">>}, r \in AfterFetch(st.repo)}
           ELSE {st} : counted \in CountCommitsSince(history, tag, st.repo)}

\* EnsureFullHistoryToTag: the possible returns [fetched, err, cmds, repo]
\* (the two results, the fetch commands and lookups run, and the clone
\* afterwards), one per outcome of the git commands.
EnsureFullHistoryToTag(history, tag, rp) ==
    LET start == [fetchAttempted |-> FALSE, failed |-> FALSE, cmds |-> <<>>, repo |-> rp]
        done == IF tag = <<>> THEN {start}
                ELSE UNION {IF unshallowed.failed THEN {unshallowed}
                            ELSE UNION {CountFetchStep(history, tag, fetched) :
                                          fetched \in FetchTagStep(history, tag, unshallowed)} :
                              unshallowed \in UnshallowStep(start)}
    IN  {[fetched |-> st.fetchAttempted, err |-> st.failed, cmds |-> st.cmds, repo |-> st.repo] :
           st \in done}

\* The message of the ErrIncompleteHistory for a tag that is not reachable:
\* the format of fmt.Sprintf and its arguments.
UnreachableMessage(tag, tagCommit) ==
    [format |-> "tag %s (commit %s) is not reachable from HEAD. This usually means the git clone has incomplete history. Try running 'git fetch --unshallow' or 'git fetch origin %s' to fetch the missing commits.",
     tag |-> tag, commit |-> tagCommit, origin |-> tag]

\* The message of the ErrIncompleteHistory for a log shorter than the
\* count of rev-list.
IncompleteMessage(tag, expectedCount, actualCount) ==
    [format |-> "git history appears incomplete: expected %d commits since %s but only found %d. This can happen with shallow clones or incomplete fetches. Try running 'git fetch --unshallow' or 'git fetch --depth=0 origin' to fetch full history.",
     expected |-> expectedCount, tag |-> tag, actual |-> actualCount]

NoError == [format |-> ""]

\* GetCommitsSinceWithFiles after EnsureFullHistoryToTag, without the check
\* that the tag is reachable.
CommitsAfterEnsure_Unverified(history, tag, ensured) ==
    {[commits |-> parseCommitsWithFiles(LogText(LogSince(history, tag, ensured.repo))),
      err |-> FALSE, message |-> NoError, repo |-> ensured.repo, cmds |-> ensured.cmds]}

\* GetCommitsSinceWithFiles, after EnsureFullHistoryToTag has returned
\* ensured.
CommitsAfterEnsure(history, tag, ensured) ==
    LET parsed == parseCommitsWithFiles(LogText(LogSince(history, tag, ensured.repo)))
    IN  IF tag # <<>> /\ ~IsTagReachableFromHead(history, tag, ensured.repo)
        THEN {[commits |-> <<>>, err |-> TRUE, message |-> UnreachableMessage(tag, tagCommit),
               repo |-> ensured.repo, cmds |-> ensured.cmds] :
                 tagCommit \in {"", Hashes[TagCommitAt(history, tag)]}}
        ELSE {IF ~expected.err /\ Len(parsed) < expected.count
              THEN [commits |-> <<>>, err |-> TRUE,
                    message |-> IncompleteMessage(tag, expected.count, Len(parsed)),
                    repo |-> ensured.repo, cmds |-> ensured.cmds]
              ELSE [commits |-> parsed, err |-> FALSE, message |-> NoError,
                    repo |-> ensured.repo, cmds |-> ensured.cmds] :
                expected \in CountCommitsSince(history, tag, ensured.repo)}

\* GetCommitsSinceWithFiles: the possible returns [commits, err, message,
\* repo, cmds]; err is set for an ErrIncompleteHistory, message is its
\* text.
GetCommitsSinceWithFiles(history, tag, rp) ==
    IF ~hasCommits(history)
    THEN {[commits |-> <<>>, err |-> FALSE, message |-> NoError, repo |-> rp, cmds |-> <<>>]}
    ELSE UNION {CommitsAfterEnsure(history, tag, ensured) :
                  ensured \in IF tag # <<>> THEN EnsureFullHistoryToTag(history, tag, rp)
                              ELSE {[fetched |-> FALSE, err |-> FALSE, cmds |-> <<>>, repo |-> rp]}}

\* m.MatchesProductVariant(c, ci.Files, pv); the scan gives the same answer
\* for every iteration order of MatchFiles.
MatchesProductVariant(c, gl, scope, files, target) ==
    \E affected \in MatchCommit(c, gl, scope, files) : ContainsTarget(affected, target)

\* The loop of calculateForProductVariant over commitInfos.
RECURSIVE RelevantCommits(_, _, _, _)
RelevantCommits(c, gl, infos, pv) ==
    IF infos = <<>> THEN <<>>
    ELSE LET ci == Head(infos)
             parsed == CommitParse(ci.Subject, ci.Body)
             files == [i \in 1..Len(ci.Files) |-> PathOf(ci.Files[i])]
             rest == RelevantCommits(c, gl, Tail(infos), pv)
         IN  IF MatchesProductVariant(c, gl, NameOf(parsed.Scope), files, pv)
             THEN <<[Type |-> TypeString(parsed.Type), Breaking |-> parsed.Breaking]>> \o rest
             ELSE rest

\* calculateForProductVariant, given what FindLastTagByPrefix and
\* GetCommitsSinceWithFiles returned.  Returns the VariantResult, or err
\* and the message of the error.
VariantResultWith(pv, last, got, bump, n) ==
    IF got.err THEN [err |-> TRUE, message |-> [format |-> "failed to get commits: %w", cause |-> got.message]]
    ELSE [err |-> FALSE,
          Product |-> pv.Product,
          Variant |-> pv.Variant,
          TagName |-> TagName(pv),
          Current |-> String(last.Version),
          Next |-> String(Bump(last.Version, bump)),
          Bump |-> bump,
          Commits |-> n]

VariantResultOf(pv, last, got, relevantCommits) ==
    VariantResultWith(pv, last, got, DetermineBump(relevantCommits), Len(relevantCommits))

CalculateForProductVariant(c, gl, pv, last, got) ==
    VariantResultOf(pv, last, got, RelevantCommits(c, gl, got.commits, pv))

(***************************************************************************)
(* Config mode as a state machine: the history grows by commits with their *)
(* changed files and by tags; calculateForProductVariant is run for an     *)
(* identity of the registry on the history as it stands.                   *)
(***************************************************************************)

MaxLog == 2

\* mobile with a glob and two variants, web without glob or variant, with
\* its own tags or with the plain v tags.
ConfigRegistries ==
    {[productName \in {"mobile", "web"} |->
        IF productName = "mobile"
        THEN [Globs |-> <<PatMobile>>, Variants |-> <<"customerA", "customerB">>, TagPrefix |-> ""]
        ELSE [Globs |-> <<>>, Variants |-> <<>>, TagPrefix |-> t]] : t \in {"", "v"}}

\* Subjects and bodies: a scoped feat; a fix whose footer follows other
\* body lines; a fix whose body starts with the footer; a chore with the
\* footer.
FilesMessages ==
    {[subject |-> <<"f", "e", "a", "t", "(", "c", "u", "s", "t", "o", "m", "e", "r", "A", ")", ":", " ", "x">>, body |-> <<>>],
     [subject |-> <<"f", "i", "x", ":", " ", "x">>, body |-> Assemble(FooterLowerHyphen)],
     [subject |-> <<"f", "i", "x", ":", " ", "x">>, body |-> Assemble(Footer)],
     [subject |-> <<"c", "h", "o", "r", "e", ":", " ", "x">>, body |-> Assemble(Footer)]}

ChangedFiles == {<<>>, <<MainTs>>, <<SharedTs>>}

ConfigTags ==
    {[kind |-> "tag", name |-> <<"m", "o", "b", "i", "l", "e", "-", "c", "u", "s", "t", "o", "m", "e", "r", "A", "-", "v", "1", ".", "0", ".", "0">>],
     [kind |-> "tag", name |-> <<"w", "e", "b", "-", "v", "1", ".", "0", ".", "0">>],
     [kind |-> "tag", name |-> <<"v", "2", ".", "0", ".", "0">>]}

InitConfigMode ==
    /\ config \in ConfigRegistries
    /\ globs = NewMatcher(config)
    /\ commits = <<>>
    /\ current = Zero
    /\ repo = FullClone
    /\ call = NoCall

\* git commit of some changed files.
GitCommitFiles ==
    /\ Idle
    /\ Len(commits) < MaxLog
    /\ \E m \in FilesMessages, files \in ChangedFiles :
          commits' = Append(commits, [kind |-> "commit", hash |-> Hashes[Len(commits) + 1],
                                      subject |-> m.subject, body |-> m.body, files |-> files])
    /\ UNCHANGED <<config, globs, current, repo, call>>

\* git tag, on the newest commit.
GitTagRelease ==
    /\ Idle
    /\ Len(commits) < MaxLog
    /\ \E i \in 1..Len(commits) : commits[i].kind = "commit"
    /\ \E t \in ConfigTags :
          /\ \A i \in 1..Len(commits) : commits[i] # t
          /\ commits' = Append(commits, t)
    /\ UNCHANGED <<config, globs, current, repo, call>>

\* calculateForProductVariant for one identity of the registry; the call
\* keeps the tag it found and the commits it read.
CallCalculateForProductVariant ==
    /\ Idle
    /\ \E order \in Orders(DOMAIN config) :
          \E pv \in Range(GetAllProductVariants(config, order)) :
              \E last \in FindLastTagByPrefix(commits, TagName(pv)) :
                  \E got \in GetCommitsSinceWithFiles(commits, last.Name, repo) :
                      /\ call' = [op |-> "calculateForProductVariant", pv |-> pv,
                                  lastTag |-> last.Name,
                                  commitInfos |-> got.commits,
                                  result |-> CalculateForProductVariant(config, globs, pv, last, got)]
                      /\ repo' = got.repo
    /\ UNCHANGED <<config, globs, commits, current>>

NextConfigMode ==
    \/ GitCommitFiles
    \/ GitTagRelease
    \/ CallCalculateForProductVariant
    \/ Return

SpecConfigMode == InitConfigMode /\ [][NextConfigMode]_vars

(***************************************************************************)
(* Properties of config mode.                                              *)
(***************************************************************************)

\* The commit of the history affects the identity: its changed files and
\* its scope resolve to it.
Affects(item, pv) ==
    MatchesProductVariant(config, globs, NameOf(CommitParse(item.subject, item.body).Scope),
                          item.files, pv)

\* C16: when calculateForProductVariant has run for an identity T, a feat
\* or fix commit since the tag that affects T and whose body holds
\* BREAKING CHANGE: or BREAKING-CHANGE: on any of its lines makes the bump
\* of T major, and the body of every commit read from the log is the whole
\* body of that commit.
C16_FooterAnyLineMajor ==
    (call.op = "calculateForProductVariant" /\ ~call.result.err) =>
        LET log == GetCommitsSince(commits, call.lastTag)
        IN  /\ (\E k \in 1..Len(log) :
                    /\ TypeString(CommitParse(log[k].subject, log[k].body).Type) \in {"feat", "fix"}
                    /\ Affects(log[k], call.pv)
                    /\ HasBreakingToken(log[k].body))
                  => call.result.Bump = "major"
            /\ Len(call.commitInfos) = Len(log)
            /\ \A k \in 1..Len(log) : call.commitInfos[k].Body = TrimSpace(log[k].body)

(***************************************************************************)
(* The tag lookups as a state machine: tags are created in any order and   *)
(* FindLastTag and FindLastTagByPrefix are run on the tags as they stand.  *)
(***************************************************************************)

MaxTags == 3

\* Tag names: of product mobile (numeric against lexical order, a leading
\* zero, a suffix, a sign, two components), of mobile-customerA, of web,
\* and plain v tags.
TagNames ==
    {<<"m", "o", "b", "i", "l", "e", "-", "v", "1", ".", "2", ".", "0">>,
     <<"m", "o", "b", "i", "l", "e", "-", "v", "1", ".", "1", "0", ".", "0">>,
     <<"m", "o", "b", "i", "l", "e", "-", "v", "0", "1", ".", "2", ".", "0">>,
     <<"m", "o", "b", "i", "l", "e", "-", "v", "1", ".", "1", "1", ".", "0", "_", "i", "n", "t", "e", "r", "n", "a", "l">>,
     <<"m", "o", "b", "i", "l", "e", "-", "v", "+", "3", ".", "0", ".", "0">>,
     <<"m", "o", "b", "i", "l", "e", "-", "v", "4", ".", "0">>,
     <<"m", "o", "b", "i", "l", "e", "-", "c", "u", "s", "t", "o", "m", "e", "r", "A", "-", "v", "2", ".", "0", ".", "0">>,
     <<"w", "e", "b", "-", "v", "3", ".", "0", ".", "0">>,
     <<"v", "2", ".", "0", ".", "0">>,
     <<"v", "2", ".", "0", ".", "1", "-", "r", "c">>}

TagProducts == {"mobile", "web"}

TagPrefixNames == {"", "mobile", "mobile-customerA", "web"}

InitTags ==
    /\ config = <<>>
    /\ globs = <<>>
    /\ commits = <<>>
    /\ current = Zero
    /\ repo = FullClone
    /\ call = NoCall

\* git tag.
CreateTag ==
    /\ Idle
    /\ Len(commits) < MaxTags
    /\ \E name \in TagNames :
          /\ \A i \in 1..Len(commits) : commits[i].name # name
          /\ commits' = Append(commits, [kind |-> "tag", name |-> name])
    /\ UNCHANGED <<config, globs, current, repo, call>>

CallFindLastTag ==
    /\ Idle
    /\ \E product \in TagProducts : \E ret \in FindLastTag(commits, Spell(product)) :
          call' = [op |-> "FindLastTag", prefix |-> product, ret |-> ret, err |-> FALSE]
    /\ UNCHANGED <<config, globs, commits, current, repo>>

CallFindLastTagByPrefix ==
    /\ Idle
    /\ \E tagPrefix \in TagPrefixNames : \E ret \in FindLastTagByPrefix(commits, tagPrefix) :
          call' = [op |-> "FindLastTagByPrefix", prefix |-> tagPrefix, ret |-> ret, err |-> FALSE]
    /\ UNCHANGED <<config, globs, commits, current, repo>>

NextTags ==
    \/ CreateTag
    \/ CallFindLastTag
    \/ CallFindLastTagByPrefix
    \/ Return

SpecTags == InitTags /\ [][NextTags]_vars

(***************************************************************************)
(* Properties of the tag lookups.                                          *)
(***************************************************************************)

\* The text that stands before MAJOR.MINOR.PATCH in a tag of the prefix.
ShapeHead(prefix) == IF prefix = "" THEN <<"v">> ELSE Spell(prefix) \o <<"-", "v">>

\* The positions of the tags of the exact shape prefix-vMAJOR.MINOR.PATCH.
ShapedTags(prefix) ==
    {i \in 1..Len(commits) :
        /\ commits[i].kind = "tag"
        /\ HasPrefix(commits[i].name, ShapeHead(prefix))
        /\ VersionPattern(SubSeq(commits[i].name, Len(ShapeHead(prefix)) + 1, Len(commits[i].name)))}

\* (major, minor, patch) of the tag at position i.
TupleAt(prefix, i) ==
    LET parts == Split(SubSeq(commits[i].name, Len(ShapeHead(prefix)) + 1, Len(commits[i].name)))
    IN  [k \in 1..3 |-> DigitsValue(parts[k], 1, 0)]

\* Numeric order of tuples.
TupleLeq(a, b) ==
    \/ a[1] < b[1]
    \/ a[1] = b[1] /\ a[2] < b[2]
    \/ a[1] = b[1] /\ a[2] = b[2] /\ a[3] <= b[3]

MaxWiden == 4

WidenRegistry ==
    [productName \in {"mobile", "web"} |->
        IF productName = "mobile"
        THEN [Globs |-> <<PatMobile>>, Variants |-> <<"customerA", "customerB">>, TagPrefix |-> ""]
        ELSE [Globs |-> <<>>, Variants |-> <<>>, TagPrefix |-> ""]]

WidenTags == {<<"m", "o", "b", "i", "l", "e", "-", "c", "u", "s", "t", "o", "m", "e", "r", "A", "-", "v", "1", ".", "0", ".", "0">>, <<"w", "e", "b", "-", "v", "1", ".", "0", ".", "0">>}

InitWiden ==
    /\ config = WidenRegistry
    /\ globs = NewMatcher(config)
    /\ commits = <<>>
    /\ current = Zero
    /\ repo = FullClone
    /\ call = NoCall

\* git commit of a fix to apps/mobile.
GitCommitFix ==
    /\ Idle
    /\ Len(commits) < MaxWiden
    /\ commits' = Append(commits, [kind |-> "commit", hash |-> Hashes[Len(commits) + 1],
                                   subject |-> <<"f", "i", "x", ":", " ", "x">>, body |-> <<>>,
                                   files |-> <<MainTs>>])
    /\ UNCHANGED <<config, globs, current, repo, call>>

\* git tag, on the newest commit.
GitTagWiden ==
    /\ Idle
    /\ Len(commits) < MaxWiden
    /\ hasCommits(commits)
    /\ \E name \in WidenTags :
          /\ \A i \in 1..Len(commits) : commits[i].kind = "tag" => commits[i].name # name
          /\ commits' = Append(commits, [kind |-> "tag", name |-> name])
    /\ UNCHANGED <<config, globs, current, repo, call>>

\* A fresh clone: shallow or not, with some of the oldest history cut off
\* from HEAD, whose own commit is there.
Clone ==
    /\ Idle
    /\ hasCommits(commits)
    /\ \E shallow \in BOOLEAN, missing \in 0..(Len(commits) - 1) :
          /\ \E k \in (missing + 1)..Len(commits) : commits[k].kind = "commit"
          /\ repo' = [shallow |-> shallow, missing |-> missing]
    /\ UNCHANGED <<config, globs, commits, current, call>>

\* The tags of the repository, and no tag.
TagArguments == {<<>>} \cup {commits[i].name : i \in {k \in 1..Len(commits) : commits[k].kind = "tag"}}

CallEnsureFullHistoryToTag ==
    /\ Idle
    /\ \E tag \in TagArguments : \E ret \in EnsureFullHistoryToTag(commits, tag, repo) :
              /\ call' = [op |-> "EnsureFullHistoryToTag", tag |-> tag, before |-> repo,
                          fetched |-> ret.fetched, err |-> ret.err, cmds |-> ret.cmds]
              /\ repo' = ret.repo
    /\ UNCHANGED <<config, globs, commits, current>>

\* calculateForProductVariant in the clone.
CallCalculateInClone ==
    /\ Idle
    /\ \E order \in Orders(DOMAIN config) :
          \E pv \in Range(GetAllProductVariants(config, order)) :
              \E last \in FindLastTagByPrefix(commits, TagName(pv)) :
                  \E got \in GetCommitsSinceWithFiles(commits, last.Name, repo) :
                      /\ call' = [op |-> "calculateForProductVariant", pv |-> pv,
                                  lastTag |-> last.Name, before |-> repo,
                                  commitInfos |-> got.commits, err |-> got.err,
                                  message |-> got.message, cmds |-> got.cmds,
                                  result |-> CalculateForProductVariant(config, globs, pv, last, got)]
                      /\ repo' = got.repo
    /\ UNCHANGED <<config, globs, commits, current>>

NextWiden ==
    \/ GitCommitFix
    \/ GitTagWiden
    \/ Clone
    \/ CallEnsureFullHistoryToTag
    \/ CallCalculateInClone
    \/ Return

SpecWiden == InitWiden /\ [][NextWiden]_vars

(***************************************************************************)
(* Properties of history widening.                                         *)
(***************************************************************************)

\* How often the command was run during the call.
TimesRun(cmd) == Cardinality({i \in 1..Len(call.cmds) : call.cmds[i] = cmd})

\* C30: EnsureFullHistoryToTag runs each of its fetch commands at most
\* once, returns true exactly when it has run at least one fetch command,
\* and for the empty tag runs no command and returns (false, nil).
C30_EnsureOnceAndFlag ==
    call.op = "EnsureFullHistoryToTag" =>
        /\ \A cmd \in FetchCommands : TimesRun(cmd) <= 1
        /\ call.fetched <=> \E cmd \in FetchCommands : TimesRun(cmd) >= 1
        /\ call.tag = <<>> => call.cmds = <<>> /\ ~call.fetched /\ ~call.err

\* A complete clone with one commit since the tag: the fetch of the
\* branch is run, fails, is run without depth, and the result is true.
C30_Witness ==
    /\ call.op = "EnsureFullHistoryToTag"
    /\ call.tag # <<>>
    /\ call.before = FullClone
    /\ call.cmds = <<"fetch origin --depth", "fetch origin">>
    /\ call.fetched
    /\ ~call.err

\* C22: when calculateForProductVariant has found a tag and the tag is no
\* ancestor of HEAD after the widening attempt, whatever the fetches did,
\* GetCommitsSinceWithFiles returns an ErrIncompleteHistory whose message
\* names the tag and suggests a fetch, it returns no commits, and the
\* calculation returns the error and no version result.
C22_UnreachableIsError ==
    (/\ call.op = "calculateForProductVariant"
     /\ call.lastTag # <<>>
     /\ ~IsTagReachableFromHead(commits, call.lastTag, repo)) =>
        /\ call.err
        /\ call.message.format = "tag %s (commit %s) is not reachable from HEAD. This usually means the git clone has incomplete history. Try running 'git fetch --unshallow' or 'git fetch origin %s' to fetch the missing commits."
        /\ call.message.tag = call.lastTag
        /\ call.message.origin = call.lastTag
        /\ call.commitInfos = <<>>
        /\ call.result.err
        /\ DOMAIN call.result = {"err", "message"}

\* A shallow clone that has cut off the tagged commit; both fetches of the
\* shallow block fail.
C22_Witness ==
    /\ call.op = "calculateForProductVariant"
    /\ call.lastTag = <<"w", "e", "b", "-", "v", "1", ".", "0", ".", "0">>
    /\ call.before.shallow
    /\ repo.shallow
    /\ ~IsTagReachableFromHead(commits, call.lastTag, repo)
    /\ call.cmds = <<"fetch --unshallow", "fetch --deepen">>
    /\ call.err
    /\ call.result.err

(***************************************************************************)
(* Both modes on one history: commits with conventional and with other     *)
(* subjects and tags; runLegacy and calculateForProductVariant are run on  *)
(* the history as it stands.                                               *)
(***************************************************************************)

\* Subjects outside the grammar (a merge, with and without a footer in its
\* body) and inside it.
ModeMessages ==
    {[subject |-> <<"M", "e", "r", "g", "e", " ", "x">>, body |-> <<>>],
     [subject |-> <<"M", "e", "r", "g", "e", " ", "x">>, body |-> Assemble(Footer)],
     [subject |-> <<"f", "i", "x", "(", "a", ")", ":", " ", "x">>, body |-> <<>>],
     [subject |-> <<"f", "e", "a", "t", ":", " ", "x">>, body |-> <<>>]}

ModeFiles == {<<MainTs>>, <<SharedTs>>}

\* git commit.
GitCommitAny ==
    /\ Idle
    /\ Len(commits) < MaxLog
    /\ \E m \in ModeMessages, files \in ModeFiles :
          commits' = Append(commits, [kind |-> "commit", hash |-> Hashes[Len(commits) + 1],
                                      subject |-> m.subject, body |-> m.body, files |-> files])
    /\ UNCHANGED <<config, globs, current, repo, call>>

NextModes ==
    \/ GitCommitAny
    \/ GitTagRelease
    \/ RunLegacy
    \/ CallCalculateForProductVariant
    \/ Return

SpecModes == InitConfigMode /\ [][NextModes]_vars

(***************************************************************************)
(* Properties of both modes.                                               *)
(***************************************************************************)

\* The subject of the commit matches the grammar: its type is not empty.
Conventional(item) == CommitParse(item.subject, item.body).Type # <<>>

\* The bump of legacy mode for a log.
LegacyBumpOf(log, scopes) ==
    LET filtered == FilterByScopes(ParseAll(log), scopes)
    IN  DetermineBump([i \in 1..Len(filtered) |->
                          [Type |-> filtered[i].Type, Breaking |-> filtered[i].Breaking]])

\* The bump of config mode for a log and an identity.
ConfigBumpOf(log, pv) ==
    DetermineBump(RelevantCommits(config, globs, parseCommitsWithFiles(LogText(log)), pv))

\* C23: in legacy mode and in config mode the calculation does not fail,
\* and its bump and its next version are those of the log without the
\* commits whose subject does not match the grammar.
C23_NonConventionalNoEffect ==
    /\ call.op = "runLegacy" =>
          \E last \in FindLastTag(commits, call.product) :
              LET bump == LegacyBumpOf(SelectSeq(GetCommitsSince(commits, last.Name), Conventional),
                                       call.scopes)
              IN  /\ call.result.Bump = bump
                  /\ call.result.Next = String(Bump(last.Version, bump))
    /\ call.op = "calculateForProductVariant" =>
          /\ ~call.result.err
          /\ \E last \in FindLastTagByPrefix(commits, TagName(call.pv)) :
                LET bump == ConfigBumpOf(SelectSeq(GetCommitsSince(commits, last.Name), Conventional),
                                         call.pv)
                IN  /\ last.Name = call.lastTag
                    /\ call.result.Bump = bump
                    /\ call.result.Next = String(Bump(last.Version, bump))

\* A merge commit with a footer, touching the files of mobile, after a
\* fix: the bump of mobile/customerA stays patch.
C23_Witness ==
    /\ call.op = "calculateForProductVariant"
    /\ call.pv.Product = "mobile"
    /\ call.pv.Variant = "customerA"
    /\ Len(commits) = 2
    /\ commits[1].subject = <<"f", "i", "x", "(", "a", ")", ":", " ", "x">>
    /\ commits[1].files = <<MainTs>>
    /\ commits[2].subject = <<"M", "e", "r", "g", "e", " ", "x">>
    /\ commits[2].body # <<>>
    /\ commits[2].files = <<MainTs>>
    /\ call.result.Commits = 2
    /\ call.result.Bump = "patch"
    /\ call.result.Next = <<"0", ".", "0", ".", "1">>

(***************************************************************************)
(* The records of the log in config mode.                                  *)
(***************************************************************************)

\* C27: parseCommitsWithFiles yields one commit per record of the log, in
\* the order of the log; the Files of each commit are exactly the file
\* names of its record and its Body is the whole body of the record.
C27_RecordsKeepFilesAndBody ==
    (call.op = "calculateForProductVariant" /\ ~call.result.err) =>
        LET log == GetCommitsSince(commits, call.lastTag)
        IN  /\ Len(call.commitInfos) = Len(log)
            /\ \A k \in 1..Len(log) :
                  /\ call.commitInfos[k].Files
                        = [i \in 1..Len(log[k].files) |-> JoinPath(log[k].files[i])]
                  /\ call.commitInfos[k].Body = TrimSpace(log[k].body)

(***************************************************************************)
(* parseTarget.                                                            *)
(***************************************************************************)

\* strings.TrimPrefix.
TrimPrefixOf(s, prefix) ==
    IF HasPrefix(s, prefix) THEN SubSeq(s, Len(prefix) + 1, Len(s)) ELSE s

\* The inner loop of parseTarget: the first entry of the variant list
\* that equals variant, if any.
RECURSIVE FindVariant(_, _, _)
FindVariant(variants, variant, i) ==
    IF i > Len(variants) THEN [ok |-> FALSE, v |-> ""]
    ELSE IF Spell(variants[i]) = variant THEN [ok |-> TRUE, v |-> variants[i]]
    ELSE FindVariant(variants, variant, i + 1)

\* The outer loop of parseTarget over the products in the order the map
\* hands them out.
RECURSIVE MatchProductVariant(_, _, _, _)
MatchProductVariant(c, order, target, i) ==
    IF i > Len(order)
    THEN [err |-> TRUE,
          message |-> [format |-> "unknown target %q - must be a valid product or product-variant",
                       target |-> target]]
    ELSE IF /\ HasPrefix(target, Spell(order[i]) \o <<"-">>)
            /\ FindVariant(c[order[i]].Variants,
                           TrimPrefixOf(target, Spell(order[i]) \o <<"-">>), 1).ok
    THEN [err |-> FALSE, Product |-> order[i],
          Variant |-> FindVariant(c[order[i]].Variants,
                                  TrimPrefixOf(target, Spell(order[i]) \o <<"-">>), 1).v,
          TagPrefix |-> ""]
    ELSE MatchProductVariant(c, order, target, i + 1)

\* parseTarget: the target as a sequence of characters, order the
\* iteration order of the map of products.
parseTarget(c, order, target) ==
    IF \E p \in DOMAIN c : Spell(p) = target /\ ~HasVariants(c, p)
    THEN [err |-> FALSE, Product |-> NameOf(target), Variant |-> "", TagPrefix |-> ""]
    ELSE MatchProductVariant(c, order, target, 1)

\* The targets: every product name, every product-variant name and texts
\* that name nothing.
TargetTexts ==
    {Spell(p) : p \in IdentityProducts}
        \cup {Spell(p) \o <<"-">> \o Spell(v) : p \in IdentityProducts, v \in {"", "customerA", "customerB"}}
        \cup {<<>>, <<"x">>, Spell("customerA")}

CallParseTarget ==
    /\ Idle
    /\ \E order \in Orders(DOMAIN config), target \in TargetTexts :
          call' = [op |-> "parseTarget", target |-> target,
                   ret |-> parseTarget(config, order, target)]
    /\ UNCHANGED <<config, globs, commits, current, repo>>

NextTarget ==
    \/ CallParseTarget
    \/ Return

SpecTarget == InitIdentities /\ [][NextTarget]_vars

(***************************************************************************)
(* Properties of parseTarget.                                              *)
(***************************************************************************)

\* The default name of an identity: product, or product-variant.
DefaultName(pv) ==
    IF pv.Variant = "" /\ ~HasVariants(config, pv.Product) THEN Spell(pv.Product)
    ELSE Spell(pv.Product) \o <<"-">> \o Spell(pv.Variant)

\* The identities of the registry.
Identities == Range(GetAllProductVariants(config, CHOOSE order \in Orders(DOMAIN config) : TRUE))

\* C29: parseTarget on the default name of an identity returns that
\* identity, whatever the iteration order; on every other text it returns
\* the error that quotes the target.
C29_ParseTargetInverts ==
    call.op = "parseTarget" =>
        /\ \A pv \in Identities :
              call.target = DefaultName(pv) =>
                  /\ ~call.ret.err
                  /\ call.ret.Product = pv.Product
                  /\ call.ret.Variant = pv.Variant
        /\ (\A pv \in Identities : call.target # DefaultName(pv)) =>
              /\ call.ret.err
              /\ call.ret.message.format = "unknown target %q - must be a valid product or product-variant"
              /\ call.ret.message.target = call.target

(***************************************************************************)
(* main and runConfigMode.                                                 *)
(***************************************************************************)

MaxRun == 3

\* What the encoder writes for the results: the VariantResult itself for
\* one result, the MultiResult otherwise.
EncodeResults(results) ==
    IF Len(results) = 1 THEN <<[kind |-> "VariantResult", value |-> results[1]]>>
    ELSE <<[kind |-> "MultiResult", Results |-> results]>>

\* The return of runConfigMode after its loop has ended in outcome.
AfterLoop(outcome, targets) ==
    IF outcome.err
    THEN [err |-> TRUE, message |-> outcome.message, stdout |-> <<>>, targets |-> targets,
          calculated |-> Len(outcome.results), repo |-> outcome.repo]
    ELSE [err |-> FALSE, message |-> NoError, stdout |-> EncodeResults(outcome.results),
          targets |-> targets, calculated |-> Len(outcome.results), repo |-> outcome.repo]

RECURSIVE CalculateFrom(_, _, _, _, _, _, _)

\* The loop of runConfigMode continues with the skipping of a target whose
\* calculation failed.
AfterTarget_SkipFailed(c, gl, history, targets, i, results, result, rp) ==
    IF result.err THEN CalculateFrom(c, gl, history, targets, i + 1, results, rp)
    ELSE CalculateFrom(c, gl, history, targets, i + 1, Append(results, result), rp)

\* The loop of runConfigMode after calculateForProductVariant has returned
\* result for target i.
AfterTarget(c, gl, history, targets, i, results, result, rp) ==
    IF result.err
    THEN {[err |-> TRUE,
           message |-> [format |-> "failed to calculate for %s: %w",
                        tag |-> TagName(targets[i]), cause |-> result.message],
           results |-> results, repo |-> rp]}
    ELSE CalculateFrom(c, gl, history, targets, i + 1, Append(results, result), rp)

\* The loop of runConfigMode from target i on, in the clone rp: the
\* possible outcomes [err, message, results, repo].
CalculateFrom(c, gl, history, targets, i, results, rp) ==
    IF i > Len(targets)
    THEN {[err |-> FALSE, message |-> NoError, results |-> results, repo |-> rp]}
    ELSE UNION {UNION {AfterTarget(c, gl, history, targets, i, results,
                                   CalculateForProductVariant(c, gl, targets[i], last, got),
                                   got.repo) :
                         got \in GetCommitsSinceWithFiles(history, last.Name, rp)} :
                  last \in FindLastTagByPrefix(history, TagName(targets[i]))}

\* runConfigMode after parseTarget has returned pv.
RunParsedTarget(c, gl, history, pv, rp) ==
    IF pv.err
    THEN {[err |-> TRUE, message |-> pv.message, stdout |-> <<>>, targets |-> <<>>, calculated |-> 0, repo |-> rp]}
    ELSE {AfterLoop(outcome, <<[Product |-> pv.Product, Variant |-> pv.Variant, TagPrefix |-> pv.TagPrefix]>>) :
            outcome \in CalculateFrom(c, gl, history,
                            <<[Product |-> pv.Product, Variant |-> pv.Variant, TagPrefix |-> pv.TagPrefix]>>,
                            1, <<>>, rp)}

\* runConfigMode in a git repository: the possible returns [err, message,
\* stdout, targets, calculated, repo]; order is the iteration order of the map of
\* products.
runConfigMode(c, gl, history, order, target, all, rp) ==
    IF target # <<>>
    THEN RunParsedTarget(c, gl, history, parseTarget(c, order, target), rp)
    ELSE IF all
    THEN {AfterLoop(outcome, GetAllProductVariants(c, order)) :
            outcome \in CalculateFrom(c, gl, history, GetAllProductVariants(c, order), 1, <<>>, rp)}
    ELSE {[err |-> TRUE,
           message |-> [format |-> "either --target or --all is required in config mode"],
           stdout |-> <<>>, targets |-> <<>>, calculated |-> 0, repo |-> rp]}

\* The scopes of the flag: split at the commas, each trimmed.
ScopeList(scopes) == [i \in 1..Len(SplitOn(scopes, ",")) |-> TrimSpace(SplitOn(scopes, ",")[i])]

\* main in legacy mode: runLegacy writes its Result.
MainLegacy(history, product, scopes, rp) ==
    {[mode |-> "legacy", configRead |-> FALSE, err |-> FALSE, message |-> NoError,
      stdout |-> <<[kind |-> "Result", value |-> LegacyResult(history, product, ScopeList(scopes), last)]>>,
      targets |-> <<>>, calculated |-> 0, repo |-> rp] :
        last \in FindLastTag(history, product)}

\* main in config mode: the configuration is loaded, or not, and
\* runConfigMode runs.
MainConfig(c, gl, history, order, product, scopes, target, all, loads, rp) ==
    IF ~loads
    THEN {[mode |-> "config", configRead |-> TRUE, err |-> TRUE,
           message |-> [format |-> IF product = <<>> /\ scopes = <<>>
                                   THEN "either --product/--scopes or a config is required"
                                   ELSE "failed to load config: %v"],
           stdout |-> <<>>, targets |-> <<>>, calculated |-> 0, repo |-> rp]}
    ELSE {[mode |-> "config", configRead |-> TRUE, err |-> ret.err, message |-> ret.message,
           stdout |-> ret.stdout, targets |-> ret.targets, calculated |-> ret.calculated,
           repo |-> ret.repo] :
            ret \in runConfigMode(c, gl, history, order, target, all, rp)}

\* main: the possible runs [mode, configRead, err, message, stdout,
\* targets, calculated, repo]; loads tells whether the configuration can be loaded.
main(c, gl, history, order, product, scopes, target, all, loads, rp) ==
    IF product # <<>> /\ scopes # <<>>
    THEN MainLegacy(history, product, scopes, rp)
    ELSE MainConfig(c, gl, history, order, product, scopes, target, all, loads, rp)

\* A registry of one product without variants.
SingleRegistry ==
    [productName \in {"web"} |-> [Globs |-> <<>>, Variants |-> <<>>, TagPrefix |-> ""]]

\* A registry that lists a variant twice.
TwiceRegistry ==
    [productName \in {"mobile"} |->
        [Globs |-> <<PatMobile>>, Variants |-> <<"customerA", "customerA">>, TagPrefix |-> ""]]

RunRegistries == {WidenRegistry, SingleRegistry, TwiceRegistry}

RunProducts == {<<>>, Spell("web")}

RunScopes == {<<>>, <<"b", ",", " ", "a">>}

RunTargets == {<<>>, Spell("web"), Spell("mobile-customerA"), <<"x">>}

InitRun ==
    /\ config \in RunRegistries
    /\ globs = NewMatcher(config)
    /\ commits = <<>>
    /\ current = Zero
    /\ repo = FullClone
    /\ call = NoCall

\* git commit of a fix to apps/mobile or to libs/shared.
GitCommitRun ==
    /\ Idle
    /\ Len(commits) < MaxRun
    /\ \E files \in ModeFiles :
          commits' = Append(commits, [kind |-> "commit", hash |-> Hashes[Len(commits) + 1],
                                      subject |-> <<"f", "i", "x", ":", " ", "x">>, body |-> <<>>,
                                      files |-> files])
    /\ UNCHANGED <<config, globs, current, repo, call>>

\* git tag, on the newest commit.
GitTagRun ==
    /\ Idle
    /\ Len(commits) < MaxRun
    /\ hasCommits(commits)
    /\ \E name \in WidenTags :
          /\ \A i \in 1..Len(commits) : commits[i].kind = "tag" => commits[i].name # name
          /\ commits' = Append(commits, [kind |-> "tag", name |-> name])
    /\ UNCHANGED <<config, globs, current, repo, call>>

\* One run of the program.
RunMain ==
    /\ Idle
    /\ \E order \in Orders(DOMAIN config), product \in RunProducts, scopes \in RunScopes,
          target \in RunTargets, all \in BOOLEAN, loads \in BOOLEAN :
          \E ret \in main(config, globs, commits, order, product, scopes, target, all, loads, repo) :
              /\ call' = [op |-> "main", product |-> product, scopes |-> scopes,
                          target |-> target, all |-> all, loads |-> loads, before |-> repo,
                          mode |-> ret.mode, configRead |-> ret.configRead, err |-> ret.err,
                          message |-> ret.message, stdout |-> ret.stdout, targets |-> ret.targets,
                          calculated |-> ret.calculated]
              /\ repo' = ret.repo
    /\ UNCHANGED <<config, globs, commits, current>>

NextRun ==
    \/ GitCommitRun
    \/ GitTagRun
    \/ Clone
    \/ RunMain
    \/ Return

SpecRun == InitRun /\ [][NextRun]_vars

(***************************************************************************)
(* Properties of main and runConfigMode.                                   *)
(***************************************************************************)

\* The results on standard output, in the order written.
Emitted(stdout) ==
    IF stdout = <<>> THEN <<>>
    ELSE IF stdout[1].kind = "MultiResult" THEN stdout[1].Results
    ELSE <<stdout[1].value>>

\* The sorted identities of the registry.
SortedIdentities == GetAllProductVariants(config, CHOOSE order \in Orders(DOMAIN config) : TRUE)

\* A run in config mode with all and no target that succeeded.
RanAll ==
    /\ call.op = "main"
    /\ call.mode = "config"
    /\ call.target = <<>>
    /\ call.all
    /\ ~call.err

\* The i-th result is the result for the i-th entry of the sorted
\* identities: its names, its current version that of a last tag of the
\* entry, its next version the bump of it, and in a complete clone the
\* bump and the count of the commits since that tag that affect the entry.
ResultsFollowIdentities(rs) ==
    /\ Len(rs) = Len(SortedIdentities)
    /\ \A i \in 1..Len(rs) :
          /\ rs[i].Product = SortedIdentities[i].Product
          /\ rs[i].Variant = SortedIdentities[i].Variant
          /\ rs[i].TagName = TagName(SortedIdentities[i])
          /\ \E last \in FindLastTagByPrefix(commits, TagName(SortedIdentities[i])) :
                /\ rs[i].Current = String(last.Version)
                /\ rs[i].Next = String(Bump(last.Version, rs[i].Bump))
                /\ call.before = FullClone =>
                      /\ rs[i].Bump = ConfigBumpOf(GetCommitsSince(commits, last.Name), SortedIdentities[i])
                      /\ rs[i].Commits = Len(RelevantCommits(config, globs,
                                                parseCommitsWithFiles(LogText(GetCommitsSince(commits, last.Name))),
                                                SortedIdentities[i]))

\* C24 as stated: under all the i-th result is the result for the i-th
\* identity of the sorted identities, and every identity of the registry
\* has exactly one result, whatever the iteration order and the commits.
C24_OneResultPerIdentity ==
    RanAll =>
        /\ ResultsFollowIdentities(Emitted(call.stdout))
        /\ \A pv \in Range(SortedIdentities) :
              Occurrences(Emitted(call.stdout), pv.Product, pv.Variant) = 1

\* C24: under all the i-th result is the result for the i-th entry of the
\* sorted identities, ascending by product and variant, and every identity
\* has as many results as the identities hold it, whatever the iteration
\* order and the commits.
C24_OneResultPerEntry ==
    RanAll =>
        /\ ResultsFollowIdentities(Emitted(call.stdout))
        /\ Ascending(Emitted(call.stdout))
        /\ \A pv \in Range(SortedIdentities) :
              Occurrences(Emitted(call.stdout), pv.Product, pv.Variant)
                  = Occurrences(SortedIdentities, pv.Product, pv.Variant)

\* Three results in the order of the identities, the first without and
\* the last with commits.
C24_Witness ==
    /\ RanAll
    /\ Len(Emitted(call.stdout)) = 3
    /\ Emitted(call.stdout)[1].Product = "mobile"
    /\ Emitted(call.stdout)[1].Variant = "customerA"
    /\ Emitted(call.stdout)[1].Commits = 0
    /\ Emitted(call.stdout)[2].Variant = "customerB"
    /\ Emitted(call.stdout)[3].Product = "web"
    /\ Emitted(call.stdout)[3].Commits = 1

\* C25: a successful run with a target writes one bare result, a
\* successful run with all writes the wrapper with one entry for every
\* identity of the registry, also for a registry of one identity.
C25_ShapeByInvocation ==
    (call.op = "main" /\ call.mode = "config" /\ ~call.err) =>
        /\ (call.target # <<>> /\ ~call.all) =>
              /\ Len(call.stdout) = 1
              /\ call.stdout[1].kind = "VariantResult"
        /\ (call.target = <<>> /\ call.all) =>
              /\ Len(call.stdout) = 1
              /\ call.stdout[1].kind = "MultiResult"
              /\ Len(call.stdout[1].Results) = Len(SortedIdentities)

\* C26: legacy mode is taken exactly when product and scopes are both
\* given, and then no configuration is read; in config mode a run with
\* neither target nor all and a run with both end in an error and write
\* no result.
C26_ExactlyOneOfTargetAndAll ==
    call.op = "main" =>
        /\ call.mode = "legacy" <=> (call.product # <<>> /\ call.scopes # <<>>)
        /\ call.mode = "legacy" => ~call.configRead
        /\ (call.mode = "config" /\ call.target = <<>> /\ ~call.all) =>
              (call.err /\ call.stdout = <<>>)
        /\ (call.mode = "config" /\ call.target # <<>> /\ call.all) =>
              (call.err /\ call.stdout = <<>>)

\* The target has a last tag, and none that is an ancestor of HEAD in the
\* clone rp.
TagCutOff(pv, rp) ==
    \A last \in FindLastTagByPrefix(commits, TagName(pv)) :
        last.Name # <<>> /\ ~IsTagReachableFromHead(commits, last.Name, rp)

====
